---- MODULE Spec2Model ----
(***************************************************************************)
(* Cycle-level model of the USB data plane of sjalloq/mono:                *)
(*   - TLPCaptureEngine (mono/gateware/usb/monitor/capture.py), the two    *)
(*     instances rx_capture / tx_capture of USBMonitorSubsystem;           *)
(*   - USBPacketizer / USBDepacketizer (mono/gateware/usb/core.py);        *)
(*   - USBCrossbar (mono/gateware/usb/core.py);                            *)
(*   - FT601Sync (mono/gateware/usb/ft601.py), the usb clock domain.       *)
(* One action is one clock tick of a block: its inputs are drawn with \E,  *)
(* its combinational signals are operators named as in the source, its     *)
(* registers are the variables.                                            *)
(***************************************************************************)
EXTENDS Integers, Sequences, FiniteSets, TLC

VARIABLES
    (* USBMonitorSubsystem: the registers of the two capture engines *)
    rx_capture, tx_capture,
    (* header_sink / payload_sink wires of each engine in the last tick *)
    rx_wires, tx_wires,
    (* the monitored buses: position inside the transaction in flight *)
    rx_tap, tx_tap,
    (* clear_stats as it was in the last tick *)
    clear_r,
    (* number of transactions the buses have started *)
    started,
    (* observer of one engine (history of the transaction in flight) *)
    focus, obs,
    (* USBCore tx path: the channel frame offered to the packetizer sink *)
    src,
    (* USBPacketizer: fsm state and header_unpack.mux *)
    packetizer,
    (* the word stream between packetizer source and depacketizer sink *)
    link,
    (* USBDepacketizer: fsm state, header_pack, cnt, timer *)
    depacketizer,
    (* words emitted by the packetizer for the frame it is sending, kept    *)
    (* for one tick after the frame's last word                             *)
    emitted,
    (* beats delivered by the depacketizer for the frame it is forwarding,   *)
    (* kept for one tick after the beat flagged last                         *)
    delivered,
    (* frames handed to the packetizer and not yet delivered, oldest first; *)
    (* no longer followed once a mismatch was seen or the watchdog fired    *)
    inflight,
    (* history of the codec: frames started, watchdog fired, mismatch seen,  *)
    (* frame the packetizer is sending                                       *)
    codec,
    (* USBCore rx path: the word stream the host offers to the              *)
    (* depacketizer sink, and the depacketizer's wires in the last tick     *)
    host, dp_wires,
    (* USBCrossbar: the registered channel ids by port index (users), the   *)
    (* side of the crossbar that carries traffic, frames started on it      *)
    crossbar,
    (* Dispatcher: status.first and sel_ongoing *)
    dispatcher,
    (* the frame the depacketizer offers on master.sink *)
    ingress,
    (* last tick: valid of each user port source; dst, valid (offered) and   *)
    (* valid & ready (taken) on master.sink                                 *)
    ig_wires,
    (* Arbiter: rr.grant and the ongoing register of each port's Status *)
    arbiter,
    (* the frame each user port offers on its sink *)
    egress,
    (* last tick: the transfer on master.source, and the port whose frame   *)
    (* is open on master.source after it                                    *)
    eg_wires,
    (* the last get_port call: its id, whether it raised, users before it *)
    registry,
    (* FT601Sync: the registers of the usb clock domain (state, rx and tx   *)
    (* data path, control outputs) and the level of read_buffer             *)
    ft601,
    (* write_fifo: the words waiting at its source, oldest first *)
    write_fifo,
    (* last tick: the adapter's state and its inputs; and the history of    *)
    (* the outbound words (queued, removed from write_fifo, taken by the    *)
    (* peer)                                                                *)
    ft_pads, outbound,
    (* FT601Driver._tx_handler: its position, queue, bus outputs, and the   *)
    (* words written into read_buffer so far                                *)
    peer,
    (* USBMonitorSubsystem: the header and payload buffers of each          *)
    (* direction, the registers of MonitorPacketArbiter, and the history    *)
    (* of the packet the arbiter is merging                                 *)
    mon_fifos, mon_arbiter, merged,
    (* USBCore rx path: watchdog history of the host's frames *)
    rx_path

capture_vars == <<rx_capture, tx_capture, rx_wires, tx_wires, rx_tap, tx_tap,
                  clear_r, started, focus, obs>>

codec_vars == <<src, packetizer, link, depacketizer, emitted, delivered,
                inflight, codec, host, dp_wires>>

crossbar_vars == <<crossbar, dispatcher, ingress, ig_wires, arbiter, egress,
                   eg_wires, registry>>

ft601_vars == <<ft601, write_fifo, ft_pads, outbound, peer>>

monitor_vars == <<mon_fifos, mon_arbiter, merged>>

path_vars == <<rx_path>>

vars == <<capture_vars, codec_vars, crossbar_vars, ft601_vars, monitor_vars,
         path_vars>>

(***************************************************************************)
(* Bounds of the model.                                                    *)
(***************************************************************************)
MaxTransactions == 3
MaxPayloadBytes == 6
MaxFrames == 2
LinkDepth == 2
TimeoutTicks == 8
MaxPorts == 2
MaxWords == 3
MaxLenDW == 3
MaxRecords == 2
HeaderFifoDepth == 4
PayloadFifoDepth == 2

(* Sample values of the inputs that are copied into the header record.     *)
TapLens == {0, 1}
Timestamps == {0}

(***************************************************************************)
(* monitor/layouts.py                                                      *)
(***************************************************************************)
TLP_TYPE_MRD == 0
TLP_TYPE_MWR == 1
TLP_TYPE_CPL == 2
TLP_TYPE_CPLD == 3
DIR_RX == 0
DIR_TX == 1
HEADER_WORD_COUNT == 4

Directions == {DIR_RX, DIR_TX}
(* A value of focus that names no engine. *)
NoFocus == DIR_RX + DIR_TX + 1

B2N(b) == IF b THEN 1 ELSE 0

(* Cat(payload_length[:10], tlp_type[:4], direction, truncated,            *)
(*     Constant(HEADER_WORD_COUNT, 16), timestamp_lo): a 64-bit word, kept *)
(* as its two 32-bit halves.                                               *)
build_header_word0(payload_length, tlp_type, direction, timestamp_lo, truncated) ==
    [lo |-> (payload_length % 1024)
            + (tlp_type % 16) * 1024
            + direction * 16384
            + B2N(truncated) * 32768
            + HEADER_WORD_COUNT * 65536,
     hi |-> timestamp_lo]

(* Field extraction on the read side of a header word 0. *)
Word0Truncated(w) == ((w.lo \div 32768) % 2) = 1
Word0PayloadLength(w) == w.lo % 1024
Word0Direction(w) == (w.lo \div 16384) % 2
Word0TlpType(w) == (w.lo \div 1024) % 16

NullWord0 == [lo |-> 0, hi |-> 0]

(* Bit 31 of a 32-bit half: the half is kept as the integer with the same  *)
(* 32 bits in two's complement.                                            *)
WithBit31(x, bit) == IF bit THEN x + (-2147483647 - 1) ELSE x

(* Cat(timestamp_hi, req_id[:16], tag[:8], first_be[:4], last_be[:4]) *)
build_header_word1(timestamp_hi, req_id, tag, first_be, last_be) ==
    [lo |-> timestamp_hi,
     hi |-> WithBit31((req_id % 65536) + (tag % 256) * 65536
                      + (first_be % 16) * 16777216
                      + (last_be % 8) * 268435456,
                      (last_be \div 8) % 2 = 1)]

(* address[:64], as its two 32-bit halves *)
build_header_word2(adr_lo, adr_hi) == [lo |-> adr_lo, hi |-> adr_hi]

(* Cat(we, bar_hit[:3], attr[:2], at[:2], 0, 0[20], status[:3],            *)
(*     cmp_id[:16], byte_count[:12], 0[4])                                 *)
build_header_word3_rx(we, bar_hit, attr, at, status, cmp_id, byte_count) ==
    [lo |-> WithBit31(B2N(we) + (bar_hit % 8) * 2 + (attr % 4) * 16
                      + (at % 4) * 64 + (status % 4) * 536870912,
                      (status \div 4) % 2 = 1),
     hi |-> (cmp_id % 65536) + (byte_count % 4096) * 65536]

(* Cat(we, 0[3], attr[:2], at[:2], pasid_valid, pasid[:20], privileged,    *)
(*     execute, status[2], cmp_id[:16], byte_count[:12], 0[4])             *)
build_header_word3_tx(we, attr, at, pasid_valid, pasid, privileged, execute, status, cmp_id, byte_count) ==
    [lo |-> WithBit31(B2N(we) + (attr % 4) * 16 + (at % 4) * 64
                      + B2N(pasid_valid) * 256 + (pasid % 1048576) * 512
                      + B2N(privileged) * 536870912
                      + B2N(execute) * 1073741824,
                      (status \div 4) % 2 = 1),
     hi |-> (cmp_id % 65536) + (byte_count % 4096) * 65536]

(***************************************************************************)
(* monitor/capture.py: TLPCaptureEngine.                                   *)
(* r: the registers of one engine, i: its inputs in this tick.             *)
(***************************************************************************)
tap_valid(i) == i.req_active \/ i.cpl_active
tap_is_request(i) == i.req_active
tap_is_completion(i) == i.cpl_active /\ ~i.req_active
tap_first(i) == i.first
tap_last(i) == i.last
tap_we(i) == IF i.req_active THEN i.we ELSE FALSE
tap_len(i) == i.len
tap_dat(i) == i.dat

tlp_type(i) ==
    IF tap_is_request(i)
    THEN (IF tap_we(i) THEN TLP_TYPE_MWR ELSE TLP_TYPE_MRD)
    ELSE IF tap_is_completion(i)
         THEN (IF tap_len(i) > 0 THEN TLP_TYPE_CPLD ELSE TLP_TYPE_CPL)
         ELSE 0

first_beat(i) == i.enable /\ tap_valid(i) /\ tap_first(i)
last_beat(i) == i.enable /\ tap_valid(i) /\ tap_last(i)
(* Mutant: a beat counts whether or not the engine is enabled. *)
any_beat_ungated(i) == tap_valid(i)

any_beat(i) == i.enable /\ tap_valid(i)

(* Mutant: every request is taken to carry payload. *)
has_payload_any_request(i) ==
    IF tap_is_request(i) THEN TRUE
    ELSE IF tap_is_completion(i) THEN tap_len(i) > 0
    ELSE FALSE

has_payload(i) ==
    IF tap_is_request(i) THEN tap_we(i)
    ELSE IF tap_is_completion(i) THEN tap_len(i) > 0
    ELSE FALSE

start_dropping(i) == first_beat(i) /\ ~i.header_ready

(* Mutant: a rejected beat is offered again while the bus is idle. *)
payload_sink_valid_retried(r, i) ==
    \/ any_beat(i) /\ has_payload(i) /\ ~r.dropping /\ ~start_dropping(i)
    \/ i.enable /\ ~tap_valid(i) /\ r.payload_truncated

payload_sink_valid(r, i) ==
    any_beat(i) /\ has_payload(i) /\ ~r.dropping /\ ~start_dropping(i)

(* payload_sink.data.eq(tap_dat): the 64-bit beat as [lo, hi] *)
payload_sink_data(i) == tap_dat(i)

payload_write_success(r, i) == payload_sink_valid(r, i) /\ i.payload_ready
payload_write_failed(r, i) == payload_sink_valid(r, i) /\ ~i.payload_ready

final_truncated(r, i) == r.payload_truncated \/ payload_write_failed(r, i)

single_beat(i) == first_beat(i) /\ tap_last(i)

use_tlp_type(r, i) == IF single_beat(i) THEN tlp_type(i) ELSE r.latched_tlp_type
use_timestamp(r, i) == IF single_beat(i) THEN i.timestamp ELSE r.latched_timestamp

header_word0(r, direction, i) ==
    build_header_word0(
        IF single_beat(i)
        THEN (IF has_payload(i) THEN tap_len(i) ELSE 0)
        ELSE (IF r.latched_has_payload THEN r.latched_len ELSE 0),
        use_tlp_type(r, i), direction, use_timestamp(r, i),
        final_truncated(r, i))

use_we(r, i) == IF single_beat(i) THEN tap_we(i) ELSE r.latched_we

(* The buses of the model carry we and len; req_id, tag, the byte enables, *)
(* the address, the attributes and the completion fields of the tap are    *)
(* held at 0, and so are their latches; timestamp[63:32] is 0.             *)
header_word1(r, i) == build_header_word1(0, 0, 0, 0, 0)
header_word2(r, i) == build_header_word2(0, 0)
header_word3(r, direction, i) ==
    IF direction = DIR_RX
    THEN build_header_word3_rx(use_we(r, i), 0, 0, 0, 0, 0, 0)
    ELSE build_header_word3_tx(use_we(r, i), 0, 0, FALSE, 0, FALSE, FALSE,
                               0, 0, 0)

(* header_sink.data = Cat(header_word0, .., header_word3) *)
full_header(r, direction, i) ==
    [word0 |-> header_word0(r, direction, i), word1 |-> header_word1(r, i),
     word2 |-> header_word2(r, i), word3 |-> header_word3(r, direction, i)]

header_sink_valid(r, i) == last_beat(i) /\ ~r.dropping

(* Mutant: a single-beat transaction is never taken as dropped. *)
single_beat_drop_never(i) == FALSE

single_beat_drop(i) == first_beat(i) /\ tap_last(i) /\ ~i.header_ready

(* The statistics counters are Signal(32): x + 1 is taken modulo 2^32.  A   *)
(* counter is kept as the integer with the same 32 bits in two's           *)
(* complement: 0 .. 2^31-1 stand for themselves, -2^31 .. -1 stand for     *)
(* 2^31 .. 2^32-1, so that 2^32-1 (kept as -1) plus one is 0.              *)
Inc32(x) == IF x = 2147483647 THEN -2147483647 - 1 ELSE x + 1

(* a <= b as unsigned 32-bit values *)
ULeq32(a, b) == IF (a >= 0) <=> (b >= 0) THEN a <= b ELSE a >= 0

(* self.sync, "On first beat" and "On last beat": the dropping flag.       *)
next_dropping(r, i) ==
    IF last_beat(i) /\ (r.dropping \/ single_beat_drop(i)) THEN FALSE
    ELSE IF first_beat(i)
         THEN (IF i.header_ready THEN FALSE
               ELSE IF ~tap_last(i) THEN TRUE ELSE r.dropping)
         ELSE r.dropping

(* self.sync: payload_truncated is loaded on an admitted first beat and    *)
(* set by a failed write on a later beat.                                  *)
next_payload_truncated(r, i) ==
    IF any_beat(i) /\ ~first_beat(i) /\ ~r.dropping /\ payload_write_failed(r, i)
    THEN TRUE
    ELSE IF first_beat(i) /\ i.header_ready
         THEN payload_write_failed(r, i)
         ELSE r.payload_truncated

(* self.sync, "On last beat: finalize statistics", before the clear.       *)
counted_dropped(r, i) == last_beat(i) /\ (r.dropping \/ single_beat_drop(i))
counted_captured(r, i) == last_beat(i) /\ ~(r.dropping \/ single_beat_drop(i))
counted_truncated(r, i) == counted_captured(r, i) /\ final_truncated(r, i)

(* self.sync, "Statistics clear": the last statement, so it wins.          *)
(* Mutant: the clear is written before the last-beat update, which wins. *)
next_packets_captured_clear_first(r, i, clear_stats) ==
    IF last_beat(i) /\ ~(r.dropping \/ single_beat_drop(i))
    THEN r.packets_captured + 1
    ELSE IF clear_stats THEN 0 ELSE r.packets_captured

next_packets_captured(r, i, clear_stats) ==
    IF clear_stats THEN 0
    ELSE IF counted_captured(r, i) THEN Inc32(r.packets_captured)
    ELSE r.packets_captured

next_packets_dropped(r, i, clear_stats) ==
    IF clear_stats THEN 0
    ELSE IF counted_dropped(r, i) THEN Inc32(r.packets_dropped)
    ELSE r.packets_dropped

next_packets_truncated(r, i, clear_stats) ==
    IF clear_stats THEN 0
    ELSE IF counted_truncated(r, i) THEN Inc32(r.packets_truncated)
    ELSE r.packets_truncated

latch(r, i) == first_beat(i) /\ i.header_ready

(* One clock edge of one engine. *)
CaptureStep(r, i, clear_stats) ==
    [dropping            |-> next_dropping(r, i),
     payload_truncated   |-> next_payload_truncated(r, i),
     latched_len         |-> IF latch(r, i) THEN tap_len(i) ELSE r.latched_len,
     latched_tlp_type    |-> IF latch(r, i) THEN tlp_type(i) ELSE r.latched_tlp_type,
     latched_timestamp   |-> IF latch(r, i) THEN i.timestamp ELSE r.latched_timestamp,
     latched_has_payload |-> IF latch(r, i) THEN has_payload(i) ELSE r.latched_has_payload,
     latched_we          |-> IF latch(r, i) THEN tap_we(i) ELSE r.latched_we,
     packets_captured    |-> next_packets_captured(r, i, clear_stats),
     packets_dropped     |-> next_packets_dropped(r, i, clear_stats),
     packets_truncated   |-> next_packets_truncated(r, i, clear_stats)]

(* The header_sink / payload_sink wires of one engine during the tick, as   *)
(* the two buffers see them: ready and data are recorded only while valid  *)
(* is high (a transfer is valid /\ ready); header_data is word 0 of        *)
(* header_sink.data.                                                       *)
CaptureWires(r, direction, i) ==
    [header_valid  |-> header_sink_valid(r, i),
     header_ready  |-> header_sink_valid(r, i) /\ i.header_ready,
     header_data   |-> IF header_sink_valid(r, i)
                       THEN header_word0(r, direction, i) ELSE NullWord0,
     payload_valid |-> payload_sink_valid(r, i),
     payload_ready |-> payload_sink_valid(r, i) /\ i.payload_ready]

CaptureReset ==
    [dropping |-> FALSE, payload_truncated |-> FALSE, latched_len |-> 0,
     latched_tlp_type |-> 0, latched_timestamp |-> 0,
     latched_has_payload |-> FALSE, latched_we |-> FALSE,
     packets_captured |-> 0, packets_dropped |-> 0, packets_truncated |-> 0]

WiresReset ==
    [header_valid |-> FALSE, header_ready |-> FALSE, header_data |-> NullWord0,
     payload_valid |-> FALSE, payload_ready |-> FALSE]

(***************************************************************************)
(* The monitored bus (top.py, pipeline registers of the tap): a stream of  *)
(* well-formed transactions, first beat .. last beat, whose kind, we and   *)
(* len are held for all beats; request and completion streams are never    *)
(* active in the same tick.  Where an engine is driven alone the beats     *)
(* carry dat = 0.                                                          *)
(***************************************************************************)
TapIdle == [mid |-> FALSE, req |-> FALSE, we |-> FALSE, len |-> 0]

NoDat == [lo |-> 0, hi |-> 0]

NoBeat == [req_active |-> FALSE, cpl_active |-> FALSE, first |-> FALSE,
           last |-> FALSE, we |-> FALSE, len |-> 0, dat |-> NoDat]

FirstBeats ==
    { [req_active |-> q, cpl_active |-> ~q, first |-> TRUE, last |-> l,
       we |-> w, len |-> n, dat |-> NoDat] :
         q \in BOOLEAN, l \in BOOLEAN, w \in BOOLEAN, n \in TapLens }

LaterBeats(t) ==
    { [req_active |-> t.req, cpl_active |-> ~t.req, first |-> FALSE,
       last |-> l, we |-> t.we, len |-> t.len, dat |-> NoDat] :
         l \in BOOLEAN }

(* Completion streams carry no we; a request is for at least one DWORD.    *)
TapBeats(t, budget) ==
    {NoBeat}
    \cup (IF t.mid THEN LaterBeats(t)
          ELSE IF budget
               THEN { b \in FirstBeats : /\ b.cpl_active => ~b.we
                                         /\ b.req_active => b.len > 0 }
               ELSE {})

TapNext(t, b) ==
    IF ~(b.req_active \/ b.cpl_active) THEN t
    ELSE IF b.last THEN TapIdle
    ELSE [mid |-> TRUE, req |-> b.req_active, we |-> b.we, len |-> b.len]

(* The inputs of one engine in one tick: a bus beat, the control inputs    *)
(* and the readiness of the two buffers.                                   *)
EngineInput(b, en, ts, hr, pr) ==
    [req_active |-> b.req_active, cpl_active |-> b.cpl_active,
     first |-> b.first, last |-> b.last, we |-> b.we, len |-> b.len,
     dat |-> b.dat,
     enable |-> en, timestamp |-> ts, header_ready |-> hr, payload_ready |-> pr]

IdleInput == EngineInput(NoBeat, FALSE, 0, TRUE, TRUE)

(***************************************************************************)
(* Observer of the engine `focus`: what happened to the transaction in     *)
(* flight (or just completed) on its bus.                                  *)
(*   beat     : the kind of bus beat in the last tick                      *)
(*   en       : enable was high on every beat of the transaction so far    *)
(*   room     : header_sink.ready was high on its first beat               *)
(*   admitted : its first beat was seen with enable high and               *)
(*              header_sink.ready high                                     *)
(*   rejected : one of its beats was offered to the payload buffer and     *)
(*              rejected (payload_sink.valid high, ready low)              *)
(*   completed: last beats seen with enable high since the last clear      *)
(*   lossy    : captured transactions since the last clear with rejected   *)
(*   heldfull : since reset enable was always high, header_sink.ready      *)
(*              always low and clear_stats never asserted                  *)
(*   refused  : its first beat was seen with enable high and               *)
(*              header_sink.ready low                                      *)
(*   own      : kind, payload length, timestamp and length field (dw) on   *)
(*              the bus in the tick of its first beat                      *)
(***************************************************************************)
NoFields == [kind |-> 0, len |-> 0, ts |-> 0, dw |-> 0]

ObsReset ==
    [beat |-> "idle", en |-> FALSE, room |-> FALSE, admitted |-> FALSE,
     rejected |-> FALSE, completed |-> 0, lossy |-> 0, heldfull |-> TRUE,
     refused |-> FALSE,
     own |-> NoFields]

BeatKind(i) ==
    IF ~tap_valid(i) THEN "idle"
    ELSE IF i.first /\ i.last THEN "single"
    ELSE IF i.first THEN "first"
    ELSE IF i.last THEN "last"
    ELSE "mid"

ObsStep(o, r, i, clear_stats) ==
    LET v == tap_valid(i)
        rej == IF v /\ i.first THEN payload_write_failed(r, i)
               ELSE IF v THEN o.rejected \/ payload_write_failed(r, i)
               ELSE o.rejected
    IN  [beat |-> BeatKind(i),
         en |-> IF v /\ i.first THEN i.enable
                ELSE IF v THEN o.en /\ i.enable ELSE o.en,
         room |-> IF v /\ i.first THEN i.header_ready ELSE o.room,
         admitted |-> IF v /\ i.first THEN first_beat(i) /\ i.header_ready
                      ELSE o.admitted,
         rejected |-> rej,
         completed |-> IF clear_stats THEN 0
                       ELSE IF last_beat(i) THEN o.completed + 1
                       ELSE o.completed,
         lossy |-> IF clear_stats THEN 0
                   ELSE IF counted_captured(r, i) /\ rej THEN o.lossy + 1
                   ELSE o.lossy,
         heldfull |-> o.heldfull /\ i.enable /\ ~i.header_ready /\ ~clear_stats,
         refused |-> IF v /\ i.first THEN first_beat(i) /\ ~i.header_ready
                     ELSE o.refused,
         own |-> IF v /\ i.first
                 THEN [kind |-> tlp_type(i),
                       len |-> IF has_payload(i) THEN tap_len(i) ELSE 0,
                       ts |-> i.timestamp, dw |-> tap_len(i)]
                 ELSE IF ~v /\ o.beat \in {"last", "single"} THEN NoFields
                 ELSE o.own]

(***************************************************************************)
(* One tick of USBMonitorSubsystem: both engines see the same clear_stats  *)
(* (top.py: rx_capture.clear_stats, tx_capture.clear_stats).               *)
(***************************************************************************)
MonitorTick(clear_stats, irx, itx) ==
    /\ rx_capture' = CaptureStep(rx_capture, irx, clear_stats)
    /\ tx_capture' = CaptureStep(tx_capture, itx, clear_stats)
    /\ rx_wires' = CaptureWires(rx_capture, DIR_RX, irx)
    /\ tx_wires' = CaptureWires(tx_capture, DIR_TX, itx)
    /\ rx_tap' = TapNext(rx_tap, irx)
    /\ tx_tap' = TapNext(tx_tap, itx)
    /\ clear_r' = clear_stats
    /\ started' = started + B2N(tap_valid(irx) /\ irx.first)
                          + B2N(tap_valid(itx) /\ itx.first)
    /\ obs' = IF focus = DIR_RX THEN ObsStep(obs, rx_capture, irx, clear_stats)
              ELSE IF focus = DIR_TX THEN ObsStep(obs, tx_capture, itx, clear_stats)
              ELSE obs
    /\ UNCHANGED focus

EngineInputs(t, budget) ==
    { EngineInput(b, en, ts, hr, pr) :
        b \in TapBeats(t, budget), en \in BOOLEAN, ts \in Timestamps,
        hr \in BOOLEAN, pr \in BOOLEAN }

(* One engine is driven, the other one is disabled and its bus is idle.    *)
CaptureTick ==
    \E clear_stats \in BOOLEAN :
        \/ /\ focus = DIR_RX
           /\ \E i \in EngineInputs(rx_tap, started < MaxTransactions) :
                  MonitorTick(clear_stats, i, IdleInput)
        \/ /\ focus = DIR_TX
           /\ \E i \in EngineInputs(tx_tap, started < MaxTransactions) :
                  MonitorTick(clear_stats, IdleInput, i)

CaptureInit ==
    /\ rx_capture = CaptureReset /\ tx_capture = CaptureReset
    /\ rx_wires = WiresReset /\ tx_wires = WiresReset
    /\ rx_tap = TapIdle /\ tx_tap = TapIdle
    /\ clear_r = FALSE
    /\ started = 0
    /\ obs = ObsReset


Focused == IF focus = DIR_RX THEN rx_capture ELSE tx_capture
FocusedWires == IF focus = DIR_RX THEN rx_wires ELSE tx_wires

(* Both engines are driven at once (enabled, write requests of one DWORD   *)
(* per beat), sharing clear_stats; no engine is observed.                  *)
StatsInputs(t, budget) ==
    { i \in EngineInputs(t, budget) :
        i.enable /\ (tap_valid(i) => i.req_active /\ i.we) }

StatsTick ==
    \E clear_stats \in BOOLEAN :
        \E irx \in StatsInputs(rx_tap, started < MaxTransactions) :
            \E itx \in StatsInputs(tx_tap,
                    started + B2N(tap_valid(irx) /\ irx.first) < MaxTransactions) :
                MonitorTick(clear_stats, irx, itx)

(* The rx engine with its three counters at c (any 32-bit value is        *)
(* reachable by counting), driven with enable high.                        *)
CounterStarts == {0, 2147483647, -2, -1}

WrapInit ==
    /\ \E c \in CounterStarts :
          rx_capture = [CaptureReset EXCEPT !.packets_captured = c,
                                            !.packets_dropped = c,
                                            !.packets_truncated = c]
    /\ tx_capture = CaptureReset
    /\ rx_wires = WiresReset /\ tx_wires = WiresReset
    /\ rx_tap = TapIdle /\ tx_tap = TapIdle
    /\ clear_r = FALSE
    /\ started = 0
    /\ obs = ObsReset

WrapTick ==
    \E clear_stats \in BOOLEAN :
        \E i \in StatsInputs(rx_tap, started < MaxTransactions) :
            MonitorTick(clear_stats, i, IdleInput)

(* Two runs side by side: the two engines see the same beats (the tap      *)
(* signals are inputs of the engine, which drives none of them) under the  *)
(* same enable, timestamp and clear_stats, while the readiness of their    *)
(* buffers differs freely.  The rx engine is observed; the statistics are  *)
(* not cleared.                                                            *)
TwinTick ==
    \E clear_stats \in {FALSE}, en \in BOOLEAN, ts \in Timestamps :
        \E b \in TapBeats(rx_tap, started < MaxTransactions) :
            \E hr1 \in BOOLEAN, pr1 \in BOOLEAN, hr2 \in BOOLEAN, pr2 \in BOOLEAN :
                MonitorTick(clear_stats,
                    EngineInput(b, en, ts, hr1, pr1),
                    EngineInput(b, en, ts, hr2, pr2))

(***************************************************************************)
(* core.py: frames, as the test bench builds them (test_core.py,           *)
(* build_usb_packet): the payload bytes are packed little-endian into      *)
(* 32-bit words, the last word padded with zero bytes.                     *)
(***************************************************************************)
USB_PREAMBLE == 1520786085    \* 0x5AA55AA5

(* "Hello!!!AB": the payloads of the model are the prefixes of this text.  *)
Text == <<72, 101, 108, 108, 111, 33, 33, 33, 65, 66>>
Payload(L) == SubSeq(Text, 1, L)

CeilDiv4(n) == (n + 3) \div 4

ByteAt(p, k) == IF k <= Len(p) THEN p[k] ELSE 0

(* int.from_bytes(chunk.ljust(4, b'\x00'), 'little') for each 4 bytes *)
PackLE(p) ==
    [w \in 1..CeilDiv4(Len(p)) |->
        ByteAt(p, 4 * w - 3) + 256 * ByteAt(p, 4 * w - 2)
        + 65536 * ByteAt(p, 4 * w - 1) + 16777216 * ByteAt(p, 4 * w)]

build_usb_packet(channel, payload_bytes) ==
    <<USB_PREAMBLE, channel, Len(payload_bytes)>> \o PackLE(payload_bytes)

(* The beats of a channel frame on a stream: a stream frame has at least   *)
(* one beat, so an empty payload travels as one pad word.                  *)
FrameWords(L) == IF L = 0 THEN <<0>> ELSE PackLE(Payload(L))

Channels == {0, 255}
Frames == [dst : Channels, length : 0..MaxPayloadBytes]

(* the words of a frame on the wire *)
WireFormat(f) == <<USB_PREAMBLE, f.dst, f.length>> \o FrameWords(f.length)

(***************************************************************************)
(* core.py: USBPacketizer.  pk: its registers; s: the sink signals         *)
(* (valid, dst, length, data, last); source_ready: the source's ready.     *)
(***************************************************************************)
PacketizerReset == [state |-> "IDLE", mux |-> 0]

pk_header_length_first(s) == <<USB_PREAMBLE, s.length, s.dst>>

(* header = [0x5aa55aa5, sink.dst, sink.length], selected by Unpack's mux  *)
pk_header(s) == <<USB_PREAMBLE, s.dst, s.length>>

pk_source_valid(pk, s) ==
    pk.state = "INSERT_HEADER" \/ (pk.state = "COPY" /\ s.valid)

pk_source_data(pk, s) ==
    IF pk.state = "INSERT_HEADER" THEN pk_header(s)[pk.mux + 1] ELSE s.data

(* Mutant: the sink is ready whenever the source is, in every state. *)
pk_sink_ready_any_state(pk, source_ready) == source_ready

pk_sink_ready(pk, source_ready) == pk.state = "COPY" /\ source_ready

(* stream.Unpack(3): sink.ready = last & source.ready, last = (mux == n-1) *)
header_unpack_sink_ready(pk, source_ready) ==
    pk.state = "INSERT_HEADER" /\ pk.mux = 2 /\ source_ready

PacketizerStep(pk, s, source_ready) ==
    [state |->
        IF pk.state = "IDLE"
        THEN (IF s.valid THEN "INSERT_HEADER" ELSE "IDLE")
        ELSE IF pk.state = "INSERT_HEADER"
        THEN (IF header_unpack_sink_ready(pk, source_ready) THEN "COPY"
              ELSE "INSERT_HEADER")
        ELSE (IF pk_source_valid(pk, s) /\ source_ready /\ s.last THEN "IDLE"
              ELSE "COPY"),
     mux |->
        IF pk.state = "INSERT_HEADER" /\ source_ready
        THEN (IF pk.mux = 2 THEN 0 ELSE pk.mux + 1)
        ELSE pk.mux]

(***************************************************************************)
(* core.py: USBDepacketizer.  dp: its registers; sink_valid, sink_data,    *)
(* source_ready: its inputs in this tick.                                  *)
(***************************************************************************)
DepacketizerReset ==
    [state |-> "IDLE", demux |-> 0, strobe_all |-> FALSE, chunk0 |-> 0,
     chunk1 |-> 0, cnt |-> 0, count |-> TimeoutTicks]

(* WaitTimer: done = (count == 0) *)
timer_done(dp) == dp.count = 0
timer_wait(dp) == dp.state # "IDLE"

(* source.dst is 8 bits wide, source.length 32 *)
dp_source_dst(dp) == dp.chunk0 % 256
dp_source_length(dp) == dp.chunk1

(* last = (cnt == source.length[2:] - 1): length[2:] drops the two low     *)
(* bits.  For length < 4 the right-hand side is -1: in the Verilog build   *)
(* that is 2^32 - 1, which cnt cannot reach before the watchdog fires.     *)
dp_last(dp) == dp.cnt = (dp_source_length(dp) \div 4) - 1

dp_source_valid(dp, sink_valid) == dp.state = "COPY" /\ sink_valid

dp_sink_ready(dp, source_ready) ==
    IF dp.state = "IDLE" THEN TRUE
    ELSE IF dp.state = "RECEIVE_HEADER"
    THEN ~timer_done(dp) /\ ~dp.strobe_all
    ELSE source_ready

(* stream.Pack(2): sink.ready = ~strobe_all | source.ready *)
header_pack_load(dp, sink_valid) ==
    /\ dp.state = "RECEIVE_HEADER" /\ sink_valid
    /\ ~dp.strobe_all

dp_next_state_copy_only(dp, sink_valid, sink_data, source_ready) ==
    IF dp.state = "IDLE"
    THEN (IF sink_data = USB_PREAMBLE /\ sink_valid THEN "RECEIVE_HEADER"
          ELSE "IDLE")
    ELSE IF dp.state = "RECEIVE_HEADER"
    THEN (IF dp.strobe_all THEN "COPY" ELSE "RECEIVE_HEADER")
    ELSE (IF (dp_source_valid(dp, sink_valid) /\ source_ready /\ dp_last(dp))
             \/ timer_done(dp)
          THEN "IDLE" ELSE "COPY")

dp_next_state(dp, sink_valid, sink_data, source_ready) ==
    IF dp.state = "IDLE"
    THEN (IF sink_data = USB_PREAMBLE /\ sink_valid THEN "RECEIVE_HEADER"
          ELSE "IDLE")
    ELSE IF dp.state = "RECEIVE_HEADER"
    THEN (IF timer_done(dp) THEN "IDLE"
          ELSE IF dp.strobe_all THEN "COPY" ELSE "RECEIVE_HEADER")
    ELSE (IF (dp_source_valid(dp, sink_valid) /\ source_ready /\ dp_last(dp))
             \/ timer_done(dp)
          THEN "IDLE" ELSE "COPY")

(* header_pack.reset = timer.done clears demux and strobe_all; chunk0 and   *)
(* chunk1 are the payload of the Pack's source Endpoint, which is          *)
(* reset_less: the reset leaves them as the tick's load sets them.         *)
DepacketizerStep(dp, sink_valid, sink_data, source_ready) ==
    LET load == header_pack_load(dp, sink_valid)
        reset == timer_done(dp)      \* header_pack.reset
    IN  [state |-> dp_next_state(dp, sink_valid, sink_data, source_ready),
         demux |-> IF reset THEN 0
                   ELSE IF load THEN (IF dp.demux = 1 THEN 0 ELSE dp.demux + 1)
                   ELSE dp.demux,
         strobe_all |-> IF reset THEN FALSE
                        ELSE IF load THEN (dp.demux = 1)
                        ELSE IF dp.state = "IDLE" THEN FALSE
                        ELSE dp.strobe_all,
         chunk0 |-> IF load /\ dp.demux = 0 THEN sink_data ELSE dp.chunk0,
         chunk1 |-> IF load /\ dp.demux = 1 THEN sink_data ELSE dp.chunk1,
         cnt |-> IF dp.state = "IDLE" THEN 0
                 ELSE IF dp_source_valid(dp, sink_valid) /\ source_ready
                 THEN dp.cnt + 1 ELSE dp.cnt,
         count |-> IF timer_wait(dp)
                   THEN (IF timer_done(dp) THEN dp.count ELSE dp.count - 1)
                   ELSE TimeoutTicks]

(***************************************************************************)
(* The producer of channel frames at the packetizer sink: it holds valid   *)
(* and the beat until the beat is taken.                                   *)
(***************************************************************************)
SrcIdle == [active |-> FALSE, held |-> FALSE, dst |-> 0, length |-> 0, idx |-> 0]

SrcSink(sr, valid) ==
    [valid |-> valid, dst |-> sr.dst, length |-> sr.length,
     data |-> IF sr.active THEN FrameWords(sr.length)[sr.idx] ELSE 0,
     last |-> sr.active /\ sr.idx = Len(FrameWords(sr.length))]

SrcNext(sr, valid, ready) ==
    IF valid /\ ready
    THEN (IF sr.idx = Len(FrameWords(sr.length)) THEN SrcIdle
          ELSE [sr EXCEPT !.idx = sr.idx + 1, !.held = FALSE])
    ELSE [sr EXCEPT !.held = valid]

CodecReset ==
    [started |-> 0, timed_out |-> FALSE, mismatch |-> FALSE,
     sending |-> [dst |-> 0, length |-> 0]]

(* The frame a delivered sequence of beats stands for. *)
ExpectedBeats(f) ==
    [k \in 1..Len(FrameWords(f.length)) |->
        [dst |-> f.dst, length |-> f.length, data |-> FrameWords(f.length)[k],
         last |-> k = Len(FrameWords(f.length))]]

(***************************************************************************)
(* One tick of the codec loop: producer -> USBPacketizer -> link ->        *)
(* USBDepacketizer -> consumer.  The link is a FIFO of LinkDepth words.    *)
(***************************************************************************)
CodecStep(valid, consumer_ready, next_frame) ==
    LET s == SrcSink(src, valid)
        pk_ready == Len(link) < LinkDepth
        pk_fire == pk_source_valid(packetizer, s) /\ pk_ready
        dp_valid == link # <<>>
        dp_data == IF dp_valid THEN Head(link) ELSE 0
        dp_take == dp_valid /\ dp_sink_ready(depacketizer, consumer_ready)
        dp_fire == dp_source_valid(depacketizer, dp_valid) /\ consumer_ready
        beat == [dst |-> dp_source_dst(depacketizer),
                 length |-> dp_source_length(depacketizer),
                 data |-> dp_data, last |-> dp_last(depacketizer)]
        starting == packetizer.state = "IDLE" /\ s.valid
        open == IF delivered # <<>> /\ delivered[Len(delivered)].last
                THEN <<>> ELSE delivered
        got == Append(open, beat)
        done == dp_fire /\ beat.last
        fired == timer_done(depacketizer) /\ depacketizer.state # "IDLE"
        timed_out == codec.timed_out \/ fired
        mismatch == codec.mismatch
                    \/ (done /\ (inflight = <<>>
                                 \/ got # ExpectedBeats(Head(inflight))))
    IN  /\ packetizer' = PacketizerStep(packetizer, s, pk_ready)
        /\ src' = IF next_frame = <<>>
                  THEN SrcNext(src, valid, pk_sink_ready(packetizer, pk_ready))
                  ELSE [active |-> TRUE, held |-> FALSE,
                        dst |-> next_frame[1].dst,
                        length |-> next_frame[1].length, idx |-> 1]
        /\ depacketizer' = DepacketizerStep(depacketizer, dp_valid, dp_data,
                                            consumer_ready)
        /\ link' = (IF dp_take THEN Tail(link) ELSE link)
                   \o (IF pk_fire THEN <<pk_source_data(packetizer, s)>> ELSE <<>>)
        /\ emitted' = IF packetizer.state = "IDLE" THEN <<>>
                      ELSE IF pk_fire
                      THEN Append(emitted, pk_source_data(packetizer, s))
                      ELSE emitted
        /\ delivered' = IF fired THEN <<>>
                        ELSE IF dp_fire THEN got ELSE open
        /\ inflight' = IF mismatch \/ timed_out THEN <<>>
                       ELSE (IF done THEN Tail(inflight) ELSE inflight)
                            \o (IF starting
                                THEN <<[dst |-> src.dst, length |-> src.length]>>
                                ELSE <<>>)
        /\ UNCHANGED <<host, dp_wires>>
        /\ codec' = [started |-> codec.started + Len(next_frame),
                     timed_out |-> timed_out,
                     sending |-> IF starting
                                 THEN [dst |-> src.dst, length |-> src.length]
                                 ELSE IF packetizer.state = "IDLE"
                                 THEN CodecReset.sending
                                 ELSE codec.sending,
                     mismatch |-> mismatch]

(* The producer offers the next beat of its frame, or waits. *)
CodecTick ==
    /\ src.active
    /\ \E valid \in (IF src.held THEN {TRUE} ELSE BOOLEAN) :
        \E consumer_ready \in BOOLEAN :
            CodecStep(valid, consumer_ready, <<>>)

(* No frame is on offer: the blocks tick, and the producer may pick its    *)
(* next frame, whose first beat is on offer from the next tick on.         *)
CodecIdleTick ==
    /\ ~src.active
    /\ \E consumer_ready \in BOOLEAN : CodecStep(FALSE, consumer_ready, <<>>)

CodecNewFrame ==
    /\ ~src.active
    /\ codec.started < MaxFrames
    /\ \E f \in Frames : \E consumer_ready \in BOOLEAN :
          CodecStep(FALSE, consumer_ready, <<f>>)

(***************************************************************************)
(* The host side of the link feeding the depacketizer sink directly (the   *)
(* rx path of USBCore): words that are not the preamble ("garbage"), and   *)
(* well-formed frames, offered with gaps; an offered word is held until    *)
(* it is taken.  sent counts the frames started; finished marks the tick   *)
(* after the one that took a frame's last word; aligned tells whether the  *)
(* depacketizer was in IDLE when the words before the frame began.         *)
(***************************************************************************)
GarbageWords == {0, USB_PREAMBLE + 1}

HostReset ==
    [mode |-> "garbage", dst |-> 0, length |-> 0, idx |-> 0, held |-> FALSE,
     word |-> 0, sent |-> 0, finished |-> FALSE, aligned |-> TRUE]

(* sink wires of the depacketizer in the last tick, the state in which the *)
(* watchdog fired in it, and the number of consecutive ticks the fsm has   *)
(* spent outside IDLE up to and including it                               *)
DpWiresReset ==
    [offered |-> FALSE, noise |-> FALSE, taken |-> FALSE, forwarded |-> FALSE,
     fired |-> "NONE", outside |-> 0]

HostFrame == [dst |-> host.dst, length |-> host.length]

DepackStep(offer, consumer_ready, next_host) ==
    LET sink_valid == offer # <<>>
        sink_data == IF sink_valid THEN offer[1] ELSE 0
        take == sink_valid /\ dp_sink_ready(depacketizer, consumer_ready)
        dp_fire == dp_source_valid(depacketizer, sink_valid) /\ consumer_ready
        beat == [dst |-> dp_source_dst(depacketizer),
                 length |-> dp_source_length(depacketizer),
                 data |-> sink_data, last |-> dp_last(depacketizer)]
        open == IF delivered # <<>> /\ delivered[Len(delivered)].last
                THEN <<>> ELSE delivered
        fired == timer_done(depacketizer) /\ depacketizer.state # "IDLE"
        in_frame == host.mode = "frame"
        final == in_frame /\ take /\ host.idx = Len(WireFormat(HostFrame))
    IN  /\ depacketizer' = DepacketizerStep(depacketizer, sink_valid, sink_data,
                                            consumer_ready)
        /\ delivered' = IF fired THEN <<>>
                        ELSE IF dp_fire THEN Append(open, beat) ELSE open
        /\ codec' = [codec EXCEPT !.timed_out = @ \/ fired]
        /\ dp_wires' = [offered |-> sink_valid,
                        noise |-> sink_valid /\ ~in_frame,
                        taken |-> take,
                        forwarded |-> dp_source_valid(depacketizer, sink_valid),
                        fired |-> IF fired THEN depacketizer.state ELSE "NONE",
                        outside |-> IF depacketizer.state # "IDLE"
                                    THEN dp_wires.outside + 1 ELSE 0]
        /\ host' =
            IF next_host # <<>> THEN next_host[1]
            ELSE [host EXCEPT
                    !.mode = IF final THEN "garbage" ELSE @,
                    !.idx = IF in_frame /\ take /\ ~final THEN @ + 1 ELSE @,
                    !.held = sink_valid /\ ~take,
                    !.word = IF sink_valid /\ ~take THEN sink_data ELSE 0,
                    !.finished = final,
                    !.aligned = IF host.finished
                                THEN depacketizer.state = "IDLE" ELSE @]
        /\ UNCHANGED <<src, packetizer, link, emitted, inflight>>

(* Between frames the host is silent or sends a word that is not the       *)
(* preamble.                                                               *)
DepackGarbage ==
    /\ host.mode = "garbage"
    /\ \E offer \in (IF host.held THEN {<<host.word>>}
                     ELSE {<<>>} \cup {<<w>> : w \in GarbageWords}) :
        \E consumer_ready \in BOOLEAN :
            DepackStep(offer, consumer_ready, <<>>)

(* The host picks its next frame; its first word is on offer from the      *)
(* next tick on.                                                           *)
DepackNewFrame ==
    /\ host.mode = "garbage" /\ ~host.held /\ ~host.finished
    /\ host.sent < MaxFrames
    /\ \E f \in Frames : \E consumer_ready \in BOOLEAN :
        DepackStep(<<>>, consumer_ready,
                   <<[host EXCEPT !.mode = "frame", !.dst = f.dst,
                                  !.length = f.length, !.idx = 1,
                                  !.sent = @ + 1]>>)

(* The host offers the next word of its frame, or pauses. *)
DepackFrame ==
    /\ host.mode = "frame"
    /\ \E valid \in (IF host.held THEN {TRUE} ELSE BOOLEAN) :
        \E consumer_ready \in BOOLEAN :
            DepackStep(IF valid THEN <<WireFormat(HostFrame)[host.idx]>>
                       ELSE <<>>, consumer_ready, <<>>)

(***************************************************************************)
(* core.py: USBCrossbar.  users maps the port index (the order of the      *)
(* get_port calls) to the channel id; ports are numbered from 0.           *)
(***************************************************************************)
NoPort == MaxPorts

PortsOf(users) == DOMAIN users

NoUsers == [i \in {} |-> 0]

(* ids offered to get_port *)
RegIds == 0..(MaxPorts + 1)

RegistryReset == [called |-> FALSE, id |-> 0, raised |-> FALSE, before |-> NoUsers]

Registered(users) == {users[i] : i \in PortsOf(users)}

(* Mutant: the port is stored without looking for the id. *)
get_port_unchecked(users, channel_id) ==
    [raised |-> FALSE,
     users |-> [i \in PortsOf(users) \cup {Cardinality(PortsOf(users))} |->
                  IF i \in PortsOf(users) THEN users[i] ELSE channel_id]]

(* get_port: ValueError if channel_id is a key of self.users, else the new *)
(* port is stored under channel_id, after the ports stored before.         *)
get_port(users, channel_id) ==
    IF channel_id \in Registered(users)
    THEN [raised |-> TRUE, users |-> users]
    ELSE [raised |-> FALSE,
          users |-> [i \in PortsOf(users) \cup {Cardinality(PortsOf(users))} |->
                        IF i \in PortsOf(users) THEN users[i] ELSE channel_id]]

(* The configurations: n ports, the port of index i registered under the   *)
(* channel id n - 1 - i.                                                   *)
Configs == {[i \in 0..(n - 1) |-> n - 1 - i] : n \in 1..MaxPorts}

(* ids of ingress frames: the id MaxPorts is registered in no configuration *)
IngressIds == 0..MaxPorts

(* frame lengths on the crossbar: one word and more than one word *)
XbarLengths == {L \in 1..MaxPayloadBytes : L % 4 = 0 \/ L = MaxPayloadBytes}

Pow2(i) == 2 ^ i

(* do_finalize: Case(master.sink.dst) { channel_id: sel = 2**i, default: 0 } *)
dispatcher_sel(users, dst) ==
    IF \E i \in PortsOf(users) : users[i] = dst
    THEN Pow2(CHOOSE i \in PortsOf(users) : users[i] = dst)
    ELSE 0

DispatcherReset == [first |-> TRUE, sel_ongoing |-> 0]

(* Dispatcher: sel = self.sel while status.first, else sel_ongoing *)
sel(users, d, dst) ==
    IF d.first THEN dispatcher_sel(users, dst) ELSE d.sel_ongoing

(* Dispatcher(master, slaves, one_hot=True): a single slave is connected   *)
(* to the master as it is; with more slaves Case(sel) connects slave i     *)
(* under 2**i.                                                             *)
port_selected(users, d, dst, i) ==
    IF Cardinality(PortsOf(users)) = 1 THEN TRUE
    ELSE sel(users, d, dst) = Pow2(i)

port_source_valid(users, d, m, i) == m.valid /\ port_selected(users, d, m.dst, i)

(* master.ready: the selected slave's ready, 1 in the default case *)
master_sink_ready(users, d, m, port_ready) ==
    IF \E i \in PortsOf(users) : port_selected(users, d, m.dst, i)
    THEN \E i \in PortsOf(users) :
            port_selected(users, d, m.dst, i) /\ port_ready[i]
    ELSE TRUE

DispatcherStep(users, d, m, port_ready) ==
    LET ready == master_sink_ready(users, d, m, port_ready)
        last == m.valid /\ m.last /\ ready        \* status.last
    IN  IF Cardinality(PortsOf(users)) = 1 THEN d
        ELSE [first |-> IF last THEN TRUE
                        ELSE IF m.valid /\ ready THEN FALSE ELSE d.first,
              sel_ongoing |-> IF d.first THEN dispatcher_sel(users, m.dst)
                              ELSE d.sel_ongoing]

(***************************************************************************)
(* Arbiter(sinks, master.source): a single master is connected as it is;   *)
(* with more masters RoundRobin grants on request[i] = Status(i).ongoing.  *)
(* a: [grant, ongoing]; v, l: valid and last of each port's sink.          *)
(***************************************************************************)
ArbiterReset(users) == [grant |-> 0, ongoing |-> [i \in PortsOf(users) |-> FALSE]]

granted(users, a, i) ==
    IF Cardinality(PortsOf(users)) = 1 THEN TRUE ELSE a.grant = i

port_sink_ready(users, a, i, master_ready) == granted(users, a, i) /\ master_ready

(* Status: last = valid & last & ready *)
status_last(users, a, v, l, i, master_ready) ==
    v[i] /\ l[i] /\ port_sink_ready(users, a, i, master_ready)

status_ongoing_valid_only(users, a, v, l, i, master_ready) ==
    v[i] /\ ~status_last(users, a, v, l, i, master_ready)

(* Status: ongoing = (valid | ongoing_reg) & ~last *)
status_ongoing(users, a, v, l, i, master_ready) ==
    (v[i] \/ a.ongoing[i]) /\ ~status_last(users, a, v, l, i, master_ready)

(* RoundRobin, SP_WITHDRAW: while the granted request is low, the grant    *)
(* moves to the first requesting port after it in cyclic order.            *)
rr_next_grant(n, grant, request) ==
    IF request[grant] THEN grant
    ELSE LET after == {k \in 1..(n - 1) : request[(grant + k) % n]}
         IN  IF after = {} THEN grant
             ELSE (grant + (CHOOSE k \in after : \A j \in after : k <= j)) % n

ArbiterStep(users, a, v, l, master_ready) ==
    LET n == Cardinality(PortsOf(users))
        request == [i \in PortsOf(users) |->
                        status_ongoing(users, a, v, l, i, master_ready)]
    IN  IF n = 1 THEN a
        ELSE [grant |-> rr_next_grant(n, a.grant, request), ongoing |-> request]

(***************************************************************************)
(* The frames on the crossbar's ports.                                     *)
(***************************************************************************)
PortIdle == [active |-> FALSE, held |-> FALSE, dst |-> 0, length |-> 0, idx |-> 0]

NewFrame(dst, length) ==
    [active |-> TRUE, held |-> FALSE, dst |-> dst, length |-> length, idx |-> 1]

CrossbarReset(users, side) == [users |-> users, side |-> side, started |-> 0]

IgWiresReset(users) ==
    [valid |-> [i \in PortsOf(users) |-> FALSE], dst |-> 0, offered |-> FALSE,
     taken |-> FALSE]

EgWiresReset ==
    [fire |-> FALSE, port |-> NoPort, last |-> FALSE, open_before |-> NoPort,
     pending |-> 0, open |-> NoPort]

EgressReset(users) == [i \in PortsOf(users) |-> PortIdle]

(* One tick of the ingress side: the depacketizer offers m on master.sink, *)
(* the user ports answer with port_ready.                                  *)
IngressStep(valid, port_ready, next) ==
    LET users == crossbar.users
        m == SrcSink(ingress, valid)
        ready == master_sink_ready(users, dispatcher, m, port_ready)
    IN  /\ dispatcher' = DispatcherStep(users, dispatcher, m, port_ready)
        /\ ingress' = IF next = <<>> THEN SrcNext(ingress, valid, ready)
                      ELSE next[1]
        /\ ig_wires' = [valid |-> [i \in PortsOf(users) |->
                                     port_source_valid(users, dispatcher, m, i)],
                        dst |-> IF valid THEN m.dst ELSE 0,
                        offered |-> valid,
                        taken |-> valid /\ ready]
        /\ crossbar' = [crossbar EXCEPT !.started = crossbar.started + Len(next)]
        /\ UNCHANGED <<arbiter, egress, eg_wires, registry>>

IngressTick ==
    /\ crossbar.side = "ingress"
    /\ ingress.active
    /\ \E valid \in (IF ingress.held THEN {TRUE} ELSE BOOLEAN) :
        \E port_ready \in [PortsOf(crossbar.users) -> BOOLEAN] :
            IngressStep(valid, port_ready, <<>>)

IngressNewFrame ==
    /\ crossbar.side = "ingress"
    /\ ~ingress.active
    /\ crossbar.started < MaxFrames
    /\ \E dst \in IngressIds : \E L \in XbarLengths :
        \E port_ready \in [PortsOf(crossbar.users) -> BOOLEAN] :
            IngressStep(FALSE, port_ready, <<NewFrame(dst, L)>>)

(* One tick of the egress side: port i offers its beat when v[i]; the      *)
(* packetizer answers with master_ready; port new[1] picks its next frame. *)
EgressStep(v, master_ready, new) ==
    LET users == crossbar.users
        P == PortsOf(users)
        l == [i \in P |-> SrcSink(egress[i], v[i]).last]
        src_port == IF \E i \in P : granted(users, arbiter, i)
                    THEN CHOOSE i \in P : granted(users, arbiter, i)
                    ELSE NoPort
        fire == src_port # NoPort /\ v[src_port] /\ master_ready
    IN  /\ arbiter' = ArbiterStep(users, arbiter, v, l, master_ready)
        /\ egress' = [i \in P |->
                        IF new # <<>> /\ new[1] = i
                        THEN NewFrame(users[i], new[2])
                        ELSE SrcNext(egress[i], v[i],
                                     port_sink_ready(users, arbiter, i, master_ready))]
        /\ eg_wires' = [fire |-> fire,
                        port |-> IF fire THEN src_port ELSE NoPort,
                        last |-> fire /\ l[src_port],
                        open_before |-> eg_wires.open,
                        pending |-> Cardinality({i \in P : v[i]}),
                        open |-> IF fire
                                 THEN (IF l[src_port] THEN NoPort ELSE src_port)
                                 ELSE eg_wires.open]
        /\ crossbar' = [crossbar EXCEPT
                           !.started = crossbar.started + (IF new = <<>> THEN 0 ELSE 1)]
        /\ UNCHANGED <<dispatcher, ingress, ig_wires, registry>>

EgressValids ==
    {v \in [PortsOf(crossbar.users) -> BOOLEAN] :
        \A i \in PortsOf(crossbar.users) :
            /\ v[i] => egress[i].active
            /\ egress[i].held => v[i]}

EgressTick ==
    /\ crossbar.side = "egress"
    /\ \E v \in EgressValids : \E master_ready \in BOOLEAN :
          EgressStep(v, master_ready, <<>>)

EgressNewFrame ==
    /\ crossbar.side = "egress"
    /\ crossbar.started < MaxFrames
    /\ \E i \in PortsOf(crossbar.users) : \E L \in XbarLengths :
        /\ ~egress[i].active
        /\ \E v \in EgressValids : \E master_ready \in BOOLEAN :
              EgressStep(v, master_ready, <<i, L>>)

CrossbarInit(configs, sides) ==
    \E users \in configs : \E side \in sides :
        /\ crossbar = CrossbarReset(users, side)
        /\ dispatcher = DispatcherReset
        /\ ingress = PortIdle
        /\ ig_wires = IgWiresReset(users)
        /\ arbiter = ArbiterReset(users)
        /\ egress = EgressReset(users)
        /\ eg_wires = EgWiresReset
        /\ registry = RegistryReset

(* A crossbar under construction: get_port is called with any id, any     *)
(* number of times.                                                        *)
GetPort ==
    /\ crossbar.side = "setup"
    /\ \E channel_id \in RegIds :
        LET res == get_port(crossbar.users, channel_id)
        IN  /\ crossbar' = [crossbar EXCEPT !.users = res.users]
            /\ registry' = [called |-> TRUE, id |-> channel_id,
                            raised |-> res.raised, before |-> crossbar.users]
            /\ dispatcher' = DispatcherReset
            /\ ingress' = PortIdle
            /\ ig_wires' = IgWiresReset(res.users)
            /\ arbiter' = ArbiterReset(res.users)
            /\ egress' = EgressReset(res.users)
            /\ eg_wires' = EgWiresReset


(***************************************************************************)
(* ft601.py: FT601Sync, the usb clock domain.  ft: its registers; rxf_n,   *)
(* txe_n, data_r: the pads in this tick; valid, data: write_fifo.source.   *)
(* Active-low signals are TRUE when high (deasserted).                     *)
(***************************************************************************)
ReadBufferDepth == 4

FT601Reset ==
    [state |-> "IDLE", data_r_reg |-> 0, rx_valid |-> FALSE, data_w_reg |-> 0,
     ready |-> FALSE, oe |-> TRUE, oe_n_reg |-> TRUE, rd_n_reg |-> TRUE,
     wr_n_reg |-> TRUE, level |-> 0]

tx_active(ft, txe_n) == ~txe_n /\ ft.state = "TX_ACTIVE"

tx_latch(ft, txe_n, valid) ==
    (ft.state = "TX_WAIT2" /\ valid) \/ (tx_active(ft, txe_n) /\ valid)

(* Mutant: the FPGA releases the bus one state later. *)
in_rx_oe_states_late(ft) ==
    ft.state \in {"RX_ACTIVE", "RX_WAIT3", "RX_COOLDOWN1", "RX_COOLDOWN2"}

in_rx_oe_states(ft) ==
    ft.state \in {"RX_ACTIVE", "RX_WAIT3", "RX_WAIT2", "RX_COOLDOWN1",
                  "RX_COOLDOWN2"}

in_rx_oe_n_states(ft) == ft.state \in {"RX_ACTIVE", "RX_WAIT3", "RX_WAIT2"}

(* Mutant: rd_n is asserted in the same states as oe_n. *)
in_rx_rd_states_with_oe_n(ft) ==
    ft.state \in {"RX_ACTIVE", "RX_WAIT3", "RX_WAIT2"}

in_rx_rd_states(ft) == ft.state \in {"RX_ACTIVE", "RX_WAIT3"}

(* Mutant: nothing is written while read_buffer holds a word. *)
wr_condition_after_drain(ft, txe_n, valid) ==
    ~txe_n /\ (ft.state = "TX_ACTIVE" /\ valid) /\ ft.level = 0

wr_condition(ft, txe_n, valid) == ~txe_n /\ (ft.state = "TX_ACTIVE" /\ valid)

state_next_tx_first(state, rxf_n, txe_n, valid) ==
    CASE state = "IDLE" ->
            IF ~txe_n /\ valid THEN "TX_WAIT1"
            ELSE IF ~rxf_n THEN "RX_WAIT1" ELSE "IDLE"
      [] state = "RX_WAIT1" -> IF rxf_n THEN "RX_COOLDOWN1" ELSE "RX_WAIT2"
      [] state = "RX_WAIT2" -> IF rxf_n THEN "RX_COOLDOWN1" ELSE "RX_WAIT3"
      [] state = "RX_WAIT3" -> IF rxf_n THEN "RX_COOLDOWN1" ELSE "RX_ACTIVE"
      [] state = "RX_ACTIVE" -> IF rxf_n THEN "RX_COOLDOWN1" ELSE "RX_ACTIVE"
      [] state = "RX_COOLDOWN1" -> "RX_COOLDOWN2"
      [] state = "RX_COOLDOWN2" -> "IDLE"
      [] state = "TX_WAIT1" -> IF txe_n THEN "TX_COOLDOWN1" ELSE "TX_WAIT2"
      [] state = "TX_WAIT2" -> IF txe_n THEN "TX_COOLDOWN1" ELSE "TX_ACTIVE"
      [] state = "TX_ACTIVE" ->
            IF txe_n \/ ~valid THEN "TX_COOLDOWN1" ELSE "TX_ACTIVE"
      [] state = "TX_COOLDOWN1" -> "TX_COOLDOWN2"
      [] state = "TX_COOLDOWN2" -> "IDLE"

state_next_short_cooldown(state, rxf_n, txe_n, valid) ==
    CASE state = "IDLE" ->
            IF ~rxf_n THEN "RX_WAIT1"
            ELSE IF ~txe_n /\ valid THEN "TX_WAIT1" ELSE "IDLE"
      [] state = "RX_WAIT1" -> IF rxf_n THEN "RX_COOLDOWN1" ELSE "RX_WAIT2"
      [] state = "RX_WAIT2" -> IF rxf_n THEN "RX_COOLDOWN1" ELSE "RX_WAIT3"
      [] state = "RX_WAIT3" -> IF rxf_n THEN "RX_COOLDOWN1" ELSE "RX_ACTIVE"
      [] state = "RX_ACTIVE" -> IF rxf_n THEN "RX_COOLDOWN1" ELSE "RX_ACTIVE"
      [] state = "RX_COOLDOWN1" -> "RX_COOLDOWN2"
      [] state = "RX_COOLDOWN2" -> "IDLE"
      [] state = "TX_WAIT1" -> IF txe_n THEN "TX_COOLDOWN1" ELSE "TX_WAIT2"
      [] state = "TX_WAIT2" -> IF txe_n THEN "TX_COOLDOWN1" ELSE "TX_ACTIVE"
      [] state = "TX_ACTIVE" ->
            IF txe_n \/ ~valid THEN "TX_COOLDOWN1" ELSE "TX_ACTIVE"
      [] state = "TX_COOLDOWN1" -> "IDLE"
      [] state = "TX_COOLDOWN2" -> "IDLE"

state_next_skip_wait(state, rxf_n, txe_n, valid) ==
    CASE state = "IDLE" ->
            IF ~rxf_n THEN "RX_WAIT1"
            ELSE IF ~txe_n /\ valid THEN "TX_WAIT1" ELSE "IDLE"
      [] state = "RX_WAIT1" -> IF rxf_n THEN "RX_COOLDOWN1" ELSE "RX_WAIT2"
      [] state = "RX_WAIT2" -> IF rxf_n THEN "RX_COOLDOWN1" ELSE "RX_ACTIVE"
      [] state = "RX_WAIT3" -> IF rxf_n THEN "RX_COOLDOWN1" ELSE "RX_ACTIVE"
      [] state = "RX_ACTIVE" -> IF rxf_n THEN "RX_COOLDOWN1" ELSE "RX_ACTIVE"
      [] state = "RX_COOLDOWN1" -> "RX_COOLDOWN2"
      [] state = "RX_COOLDOWN2" -> "IDLE"
      [] state = "TX_WAIT1" -> IF txe_n THEN "TX_COOLDOWN1" ELSE "TX_WAIT2"
      [] state = "TX_WAIT2" -> IF txe_n THEN "TX_COOLDOWN1" ELSE "TX_ACTIVE"
      [] state = "TX_ACTIVE" ->
            IF txe_n \/ ~valid THEN "TX_COOLDOWN1" ELSE "TX_ACTIVE"
      [] state = "TX_COOLDOWN1" -> "TX_COOLDOWN2"
      [] state = "TX_COOLDOWN2" -> "IDLE"

(* Case(state, ...) *)
state_next(state, rxf_n, txe_n, valid) ==
    CASE state = "IDLE" ->
            IF ~rxf_n THEN "RX_WAIT1"
            ELSE IF ~txe_n /\ valid THEN "TX_WAIT1" ELSE "IDLE"
      [] state = "RX_WAIT1" -> IF rxf_n THEN "RX_COOLDOWN1" ELSE "RX_WAIT2"
      [] state = "RX_WAIT2" -> IF rxf_n THEN "RX_COOLDOWN1" ELSE "RX_WAIT3"
      [] state = "RX_WAIT3" -> IF rxf_n THEN "RX_COOLDOWN1" ELSE "RX_ACTIVE"
      [] state = "RX_ACTIVE" -> IF rxf_n THEN "RX_COOLDOWN1" ELSE "RX_ACTIVE"
      [] state = "RX_COOLDOWN1" -> "RX_COOLDOWN2"
      [] state = "RX_COOLDOWN2" -> "IDLE"
      [] state = "TX_WAIT1" -> IF txe_n THEN "TX_COOLDOWN1" ELSE "TX_WAIT2"
      [] state = "TX_WAIT2" -> IF txe_n THEN "TX_COOLDOWN1" ELSE "TX_ACTIVE"
      [] state = "TX_ACTIVE" ->
            IF txe_n \/ ~valid THEN "TX_COOLDOWN1" ELSE "TX_ACTIVE"
      [] state = "TX_COOLDOWN1" -> "TX_COOLDOWN2"
      [] state = "TX_COOLDOWN2" -> "IDLE"

(* read_buffer is a SyncFIFO of ReadBufferDepth words: a word is written   *)
(* when sink.valid and the fifo is not full, one is read when drain        *)
(* (read_fifo.sink.ready) and the fifo is not empty.                       *)
read_buffer_sink_ready(ft) == ft.level < ReadBufferDepth

rx_valid_gated(ft, rxf_n) ==
    ~rxf_n /\ ft.state = "RX_ACTIVE" /\ read_buffer_sink_ready(ft)

(* rx_valid.eq(~pads.rxf_n & (state == S_RX_ACTIVE)) *)
rx_valid(ft, rxf_n) == ~rxf_n /\ ft.state = "RX_ACTIVE"

FT601Step(ft, rxf_n, txe_n, data_r, valid, data, drain) ==
    [state |-> state_next(ft.state, rxf_n, txe_n, valid),
     data_r_reg |-> data_r,
     rx_valid |-> rx_valid(ft, rxf_n),
     data_w_reg |-> IF tx_latch(ft, txe_n, valid) THEN data ELSE ft.data_w_reg,
     ready |-> tx_latch(ft, txe_n, valid),
     oe |-> rxf_n \/ ~in_rx_oe_states(ft),
     oe_n_reg |-> rxf_n \/ ~in_rx_oe_n_states(ft),
     rd_n_reg |-> rxf_n \/ ~in_rx_rd_states(ft),
     wr_n_reg |-> ~wr_condition(ft, txe_n, valid),
     level |-> ft.level
               + (IF ft.rx_valid /\ read_buffer_sink_ready(ft) THEN 1 ELSE 0)
               - (IF drain /\ ft.level > 0 THEN 1 ELSE 0)]

(* words on the inbound data bus *)
BusWords == {0, 1}

(* remove: a word left write_fifo in the last tick; age: ticks since the   *)
(* last tick spent in IDLE; rx_lows, tx_lows: consecutive ticks, the last  *)
(* one included, with rxf_n (txe_n) low; counted up to 4, 3 and 2; oe_n:   *)
(* the level of the oe_n pad in the last tick; wait: consecutive ticks, the *)
(* last one included, in which write_fifo held a word, txe_n was low and   *)
(* rxf_n high and after which wr_n is still high, counted up to 7.         *)
FtPadsReset ==
    [state |-> "IDLE", rxf_n |-> TRUE, txe_n |-> TRUE, data_r |-> 0,
     valid |-> FALSE, sink_ready |-> TRUE, remove |-> FALSE, age |-> 1,
     rx_lows |-> 0, tx_lows |-> 0, oe_n |-> TRUE, wait |-> 0]

UpTo(n, most) == IF n < most THEN n ELSE most

OutboundReset == [queued |-> 0, removed |-> <<>>, taken |-> <<>>]

(* One tick of the usb clock, from one rising edge to the next.  take: the *)
(* peer takes the word on the data bus in this tick; the sys side may      *)
(* queue one more outbound word, numbered in order.                        *)
FT601CycleTaking(rxf_n, txe_n, drain, data_r, queue, take) ==
        LET valid == write_fifo # <<>>
            data == IF valid THEN Head(write_fifo) ELSE 0
            remove == valid /\ ft601.ready
        IN  /\ ft601' = FT601Step(ft601, rxf_n, txe_n, data_r, valid, data,
                                  drain)
            /\ write_fifo' = (IF remove THEN Tail(write_fifo) ELSE write_fifo)
                             \o (IF queue THEN <<outbound.queued + 1>>
                                 ELSE <<>>)
            /\ ft_pads' = [state |-> ft601.state, rxf_n |-> rxf_n,
                           txe_n |-> txe_n, data_r |-> data_r,
                           valid |-> valid,
                           sink_ready |-> read_buffer_sink_ready(ft601),
                           remove |-> remove,
                           age |-> IF ft601.state = "IDLE" THEN 1
                                   ELSE UpTo(ft_pads.age + 1, 4),
                           rx_lows |-> IF rxf_n THEN 0
                                       ELSE UpTo(ft_pads.rx_lows + 1, 3),
                           tx_lows |-> IF txe_n THEN 0
                                       ELSE UpTo(ft_pads.tx_lows + 1, 2),
                           oe_n |-> ft601.oe_n_reg,
                           wait |-> IF /\ valid /\ ~txe_n /\ rxf_n
                                       /\ ~wr_condition(ft601, txe_n, valid)
                                    THEN UpTo(ft_pads.wait + 1, 7)
                                    ELSE 0]
            /\ outbound' =
                [queued |-> outbound.queued + (IF queue THEN 1 ELSE 0),
                 removed |-> IF remove THEN Append(outbound.removed, data)
                             ELSE outbound.removed,
                 taken |-> IF take THEN Append(outbound.taken, ft601.data_w_reg)
                           ELSE outbound.taken]

(* The peer takes the word on the data bus in a tick in which wr_n and     *)
(* txe_n are both low.                                                     *)
FT601Cycle(rxf_n, txe_n, drain, data_r, queue) ==
    FT601CycleTaking(rxf_n, txe_n, drain, data_r, queue,
                     ~ft601.wr_n_reg /\ ~txe_n)

(* the pads are driven freely *)
FT601Tick ==
    /\ \E rxf_n, txe_n, drain \in BOOLEAN : \E data_r \in BusWords :
       \E queue \in (IF outbound.queued < MaxWords THEN BOOLEAN ELSE {FALSE}) :
          FT601Cycle(rxf_n, txe_n, drain, data_r, queue)
    /\ UNCHANGED peer

(***************************************************************************)
(* driver.py: FT601Driver, the peer of the adapter in the test benches.    *)
(* _tx_handler drives the inbound direction.  pc: "get" (await             *)
(* _tx_queue.get()), "oe" (waiting for oe_n low), "rd" (first word on the  *)
(* bus, waiting for rd_n low), "stream" (inside the while rd_n == 0        *)
(* loop).  After a rising edge the handler reads the values oe_n and rd_n  *)
(* had in the tick that just ended; what it writes is on the bus in the    *)
(* next tick.                                                              *)
(* _rx_handler collects the outbound direction.  rx: "wait" (no burst in   *)
(* progress), "burst" (inside the while loop of a wr_n burst), "dead" (the *)
(* coroutine ended with an exception); packet: the words of the burst in   *)
(* progress, received: the packets put into _rx_queue.                     *)
(* queued counts the words given to send_to_fpga, written lists the words  *)
(* the adapter wrote into read_buffer.                                     *)
(***************************************************************************)
PeerReset ==
    [pc |-> "get", queue |-> <<>>, word |-> 0, rxf_n |-> TRUE, data |-> 0,
     queued |-> 0, written |-> <<>>,
     rx |-> "wait", packet |-> <<>>, received |-> <<>>]

(* bus.py: the signals of FT601Bus, required and optional; the driver's    *)
(* bus has an attribute for each of them and for no other name.            *)
BusSignals ==
    {"clk", "data", "be", "rxf_n", "txe_n", "rd_n", "wr_n", "oe_n",
     "siwu_n", "rst_n"}

(* send_to_fpga(data) with a list of n words, numbered in order: every     *)
(* word is put into _tx_queue before the handler runs again; a handler     *)
(* blocked in get() then takes the first word of the queue and lowers      *)
(* rxf_n.                                                                  *)
send_to_fpga(pr, n) ==
    LET q == pr.queue \o [k \in 1..n |-> pr.queued + k]
    IN  IF pr.pc = "get" /\ q # <<>>
        THEN [pr EXCEPT !.pc = "oe", !.queue = Tail(q), !.word = Head(q),
                        !.rxf_n = FALSE, !.queued = @ + n]
        ELSE [pr EXCEPT !.queue = q, !.queued = @ + n]

(* the body of the while rd_n == 0 loop *)
tx_handler_stream(pr) ==
    IF pr.queue # <<>>
    THEN [pr EXCEPT !.pc = "stream", !.data = Head(pr.queue),
                    !.word = Head(pr.queue), !.queue = Tail(pr.queue)]
    ELSE [pr EXCEPT !.pc = "get", !.rxf_n = TRUE]

(* the handler at a rising edge *)
tx_handler(pr, oe_n, rd_n) ==
    CASE pr.pc = "get" -> pr
      [] pr.pc = "oe" -> IF oe_n THEN pr
                         ELSE [pr EXCEPT !.pc = "rd", !.data = pr.word]
      [] pr.pc = "rd" -> IF rd_n THEN pr ELSE tx_handler_stream(pr)
      [] pr.pc = "stream" ->
            IF rd_n THEN [pr EXCEPT !.pc = "get", !.rxf_n = TRUE]
            ELSE tx_handler_stream(pr)

(* the word _rx_handler captures at this falling edge, if any: inside the  *)
(* loop it reads self.bus.data_o                                           *)
rx_capture_word(pr, wr_n, txe_n, data_o) ==
    IF pr.rx # "dead" /\ ~wr_n /\ ~txe_n /\ "data_o" \in BusSignals
    THEN <<data_o>> ELSE <<>>

(* _rx_handler at a falling edge: with wr_n and txe_n both low it reads    *)
(* the word on data_o, which joins the packet of the burst; reading a      *)
(* signal the bus does not have raises AttributeError and ends the         *)
(* coroutine.  Otherwise a burst in progress ends and its packet is put    *)
(* into _rx_queue.                                                         *)
rx_handler(pr, wr_n, txe_n, data_o) ==
    IF pr.rx = "dead" THEN pr
    ELSE IF ~wr_n /\ ~txe_n
    THEN IF "data_o" \in BusSignals
         THEN [pr EXCEPT !.rx = "burst", !.packet = Append(@, data_o)]
         ELSE [pr EXCEPT !.rx = "dead"]
    ELSE IF pr.rx = "burst"
         THEN [pr EXCEPT !.rx = "wait", !.packet = <<>>,
                         !.received = Append(@, pr.packet)]
         ELSE pr

(* One tick with the driver as the peer.  The test calls send_to_fpga with *)
(* a list of n words (n = 0: no call) and sets txe_n at will               *)
(* (set_tx_ready): txe_fall is the level at the falling edge, where        *)
(* _rx_handler samples, txe_n the level at the rising edge that ends the   *)
(* tick, where the adapter samples.  The adapter samples the driver's      *)
(* rxf_n and data, _tx_handler reacts at that edge.                        *)
FT601PeerTick ==
    \E n \in 0..(MaxWords - peer.queued) :
    \E txe_n, txe_fall, drain \in BOOLEAN :
    \E queue \in (IF outbound.queued < MaxWords THEN BOOLEAN ELSE {FALSE}) :
        LET pr == send_to_fpga(peer, n)
            rx == rx_handler(pr, ft601.wr_n_reg, txe_fall, ft601.data_w_reg)
            nxt == tx_handler(rx, ft601.oe_n_reg, ft601.rd_n_reg)
        IN  /\ FT601CycleTaking(pr.rxf_n, txe_n, drain, pr.data, queue,
                  rx_capture_word(pr, ft601.wr_n_reg, txe_fall,
                                  ft601.data_w_reg) # <<>>)
            /\ peer' = [nxt EXCEPT !.written =
                           IF rx_valid(ft601, pr.rxf_n)
                           THEN Append(@, pr.data) ELSE @]

(***************************************************************************)
(* monitor/fifo.py: MonitorHeaderFIFO / MonitorPayloadFIFO of one          *)
(* direction: a SyncFIFO followed by a width converter to 32 bits          *)
(* (reverse=False: the low 32 bits of an entry leave first).  The          *)
(* converter is combinational: an entry stays in the SyncFIFO until its    *)
(* last 32-bit word is taken.                                              *)
(*   header : the 256-bit header records [txn, word0 .. word3], oldest     *)
(*            first                                                        *)
(*   hmux   : index of the 32-bit word of the oldest header offered        *)
(*   payload: the 64-bit payload beats [txn, beat, dat], oldest first      *)
(*   pmux   : index of the 32-bit word of the oldest beat offered          *)
(* txn numbers the bus transaction a record or beat was captured from.     *)
(***************************************************************************)
MonitorFIFOReset == [header |-> <<>>, hmux |-> 0, payload |-> <<>>, pmux |-> 0]

header_fifo_sink_ready(f) == Len(f.header) < HeaderFifoDepth
payload_fifo_sink_ready(f) == Len(f.payload) < PayloadFifoDepth

header_fifo_source_valid(f) == f.header # <<>>
payload_fifo_source_valid(f) == f.payload # <<>>

(* 32-bit word pmux of the oldest beat, low word first *)
payload_fifo_source_data(f) ==
    IF f.payload = <<>> THEN 0
    ELSE IF f.pmux = 0 THEN Head(f.payload).dat.lo ELSE Head(f.payload).dat.hi

(* 32-bit word hmux of Cat(header_word0, .., header_word3) *)
header_fifo_source_data(f) ==
    IF f.header = <<>> THEN 0
    ELSE LET e == Head(f.header)
             w == CASE f.hmux \div 2 = 0 -> e.word0
                    [] f.hmux \div 2 = 1 -> e.word1
                    [] f.hmux \div 2 = 2 -> e.word2
                    [] OTHER -> e.word3
         IN  IF f.hmux % 2 = 0 THEN w.lo ELSE w.hi

(* One clock edge of the two buffers of one direction: hw / pb are the      *)
(* sequences (empty or of one element) written on the sink side, hr / pr    *)
(* the ready inputs of the two 32-bit sources.                             *)
MonitorFIFOStep(f, hw, pb, hr, pr) ==
    LET htake == header_fifo_source_valid(f) /\ hr
        ptake == payload_fifo_source_valid(f) /\ pr
        hlast == f.hmux = 2 * HEADER_WORD_COUNT - 1
        plast == f.pmux = 1
    IN  [header  |-> (IF htake /\ hlast THEN Tail(f.header) ELSE f.header) \o hw,
         hmux    |-> IF htake THEN (IF hlast THEN 0 ELSE f.hmux + 1) ELSE f.hmux,
         payload |-> (IF ptake /\ plast THEN Tail(f.payload) ELSE f.payload) \o pb,
         pmux    |-> IF ptake THEN (IF plast THEN 0 ELSE f.pmux + 1) ELSE f.pmux]

(***************************************************************************)
(* monitor/arbiter.py: MonitorPacketArbiter.                               *)
(* a: its registers, x: its inputs in this tick (the four buffer sources   *)
(* and source.ready).                                                      *)
(***************************************************************************)
USB_MONITOR_CHANNEL == 1
HEADER_WORDS_32 == HEADER_WORD_COUNT * 2

MonitorArbiterReset ==
    [state |-> "IDLE", from_tx |-> FALSE, header_count |-> 0,
     payload_count |-> 0, payload_length_dw |-> 0, payload_odd |-> FALSE,
     packet_length_bytes |-> 0]

ArbiterInput(fs, source_ready) ==
    [rx_header_valid  |-> header_fifo_source_valid(fs[DIR_RX]),
     rx_header_data   |-> header_fifo_source_data(fs[DIR_RX]),
     tx_header_valid  |-> header_fifo_source_valid(fs[DIR_TX]),
     tx_header_data   |-> header_fifo_source_data(fs[DIR_TX]),
     rx_payload_valid |-> payload_fifo_source_valid(fs[DIR_RX]),
     rx_payload_data  |-> payload_fifo_source_data(fs[DIR_RX]),
     tx_payload_valid |-> payload_fifo_source_valid(fs[DIR_TX]),
     tx_payload_data  |-> payload_fifo_source_data(fs[DIR_TX]),
     source_ready     |-> source_ready]

(* "Mux header/payload sources based on from_tx" *)
mux_header_valid(a, x) ==
    IF a.from_tx THEN x.tx_header_valid ELSE x.rx_header_valid
mux_header_data(a, x) ==
    IF a.from_tx THEN x.tx_header_data ELSE x.rx_header_data
mux_payload_valid(a, x) ==
    IF a.from_tx THEN x.tx_payload_valid ELSE x.rx_payload_valid
mux_payload_data(a, x) ==
    IF a.from_tx THEN x.tx_payload_data ELSE x.rx_payload_data

(* Mutant: the eighth header word is flagged last whatever follows it. *)
header_last_whatever_follows(a) == a.header_count = 1

header_last(a) == a.header_count = 1 /\ a.payload_length_dw = 0

source_valid(a, x) ==
    IF a.state = "HEADER" THEN mux_header_valid(a, x)
    ELSE IF a.state = "PAYLOAD" THEN mux_payload_valid(a, x)
    ELSE FALSE
(* source.data: header_data in HEADER, payload_data in PAYLOAD, 0 in PAD *)
source_data(a, x) ==
    IF a.state = "HEADER" THEN mux_header_data(a, x)
    ELSE IF a.state = "PAYLOAD" THEN mux_payload_data(a, x)
    ELSE 0
source_first(a) == a.state = "HEADER" /\ a.header_count = HEADER_WORDS_32
source_last(a) ==
    IF a.state = "HEADER" THEN header_last(a)
    ELSE IF a.state = "PAYLOAD" THEN a.payload_count = 1
    ELSE FALSE
source_dst(a) == USB_MONITOR_CHANNEL
source_length(a) == a.packet_length_bytes

(* Mutant: in PAYLOAD both payload buffers are read. *)
payload_source_ready_both(a, x, d) ==
    \/ a.state = "PAYLOAD" /\ x.source_ready
    \/ a.state = "PAD" /\ (a.from_tx = (d = DIR_TX))

(* rx_header.ready / tx_header.ready and rx_payload.ready /                *)
(* tx_payload.ready, by direction d                                        *)
header_source_ready(a, x, d) ==
    a.state = "HEADER" /\ (a.from_tx = (d = DIR_TX)) /\ x.source_ready
payload_source_ready(a, x, d) ==
    \/ a.state = "PAYLOAD" /\ (a.from_tx = (d = DIR_TX)) /\ x.source_ready
    \/ a.state = "PAD" /\ (a.from_tx = (d = DIR_TX))

(* Mutant: in IDLE the tx header buffer is looked at first. *)
select_from_tx_first(x) == x.tx_header_valid

(* IDLE: If(rx_header.valid, from_tx.eq(0)).Elif(tx_header.valid,          *)
(* from_tx.eq(1)); called when one of the two is valid.                    *)
select_from_tx(x) == ~x.rx_header_valid

(* IDLE: the registers loaded from the first word of the selected header *)
start_packet(a, from_tx, data) ==
    [state |-> "HEADER", from_tx |-> from_tx,
     header_count |-> HEADER_WORDS_32,
     payload_count |-> a.payload_count,
     payload_length_dw |-> (data % 1024),
     payload_odd |-> ((data % 2) = 1),
     packet_length_bytes |-> (HEADER_WORDS_32 + (data % 1024)) * 4]

(* One clock edge of the arbiter. *)
MonitorArbiterStep(a, x) ==
    IF a.state = "IDLE"
    THEN IF x.rx_header_valid \/ x.tx_header_valid
         THEN start_packet(a, select_from_tx(x),
                           IF select_from_tx(x) THEN x.tx_header_data
                           ELSE x.rx_header_data)
         ELSE a
    ELSE IF a.state = "HEADER"
    THEN IF mux_header_valid(a, x) /\ x.source_ready
         THEN IF a.header_count = 1
              THEN [a EXCEPT !.header_count = (@ + 15) % 16,
                             !.payload_count = a.payload_length_dw,
                             !.state = IF a.payload_length_dw > 0
                                       THEN "PAYLOAD" ELSE "IDLE"]
              ELSE [a EXCEPT !.header_count = (@ + 15) % 16]
         ELSE a
    ELSE IF a.state = "PAYLOAD"
    THEN IF mux_payload_valid(a, x) /\ x.source_ready
         THEN IF a.payload_count = 1
              THEN [a EXCEPT !.payload_count = (@ + 65535) % 65536,
                             !.state = IF a.payload_odd THEN "PAD" ELSE "IDLE"]
              ELSE [a EXCEPT !.payload_count = (@ + 65535) % 65536]
         ELSE a
    ELSE IF mux_payload_valid(a, x) THEN [a EXCEPT !.state = "IDLE"]
    ELSE a

(***************************************************************************)
(* top.py, USBMonitorSubsystem: the two capture engines write the four     *)
(* buffers, the arbiter reads them and drives the subsystem's source.      *)
(* The monitored buses carry write requests of 1 .. MaxLenDW DWORDs, two   *)
(* DWORDs per beat, and read requests (one beat, no payload).              *)
(***************************************************************************)
BeatsOf(len) == (len + 1) \div 2

(* The 64-bit data of a payload beat as [lo, hi]; the beats of the rx bus *)
(* and of the tx bus carry different data.                                 *)
TapDats(d) ==
    IF d = DIR_RX THEN { [lo |-> 1, hi |-> 2] } ELSE { [lo |-> 3, hi |-> 4] }

WriteBeats(dats) ==
    { [req_active |-> TRUE, cpl_active |-> FALSE, first |-> TRUE,
       last |-> BeatsOf(n) = 1, we |-> TRUE, len |-> n, dat |-> v] :
         n \in 1..MaxLenDW, v \in dats }

ReadBeat ==
    [req_active |-> TRUE, cpl_active |-> FALSE, first |-> TRUE,
     last |-> TRUE, we |-> FALSE, len |-> 1, dat |-> NoDat]

(* t: the bus position, seen: beats of the transaction in flight so far *)
PipeBeats(t, seen, budget, dats) ==
    {NoBeat}
    \cup (IF t.mid
          THEN {[req_active |-> TRUE, cpl_active |-> FALSE, first |-> FALSE,
                 last |-> seen + 1 = BeatsOf(t.len), we |-> t.we,
                 len |-> t.len, dat |-> v] : v \in dats }
          ELSE IF budget THEN WriteBeats(dats) \cup {ReadBeat} ELSE {})

(* History of the pipeline.                                                *)
(*   txn, seen: per bus, the number of the transaction in flight and the   *)
(*              beats of it seen so far                                    *)
(*   idle     : the arbiter was in IDLE in the last tick; rx_valid and     *)
(*              tx_valid: the two header buffers' valid in the last tick   *)
(*   from_tx  : the arbiter's from_tx in the last tick                     *)
(*   reads    : the buffer sources read in the last tick (valid & ready)   *)
(*   words    : the words read for the packet in progress (or the last     *)
(*              one), in order; a "pad" word is read and not emitted       *)
(*   busy     : ticks outside IDLE for that packet in which the            *)
(*              downstream was ready                                       *)
MergedReset ==
    [txn |-> [d \in Directions |-> 0], seen |-> [d \in Directions |-> 0],
     idle |-> TRUE, rx_valid |-> FALSE, tx_valid |-> FALSE,
     from_tx |-> FALSE, reads |-> {}, words |-> <<>>, busy |-> 0,
     stored |-> [d \in Directions |-> 0]]

BufferReads(fs, a, x) ==
    { <<d, "header">> : d \in { e \in Directions :
          header_fifo_source_valid(fs[e]) /\ header_source_ready(a, x, e) } }
    \cup
    { <<d, "payload">> : d \in { e \in Directions :
          payload_fifo_source_valid(fs[e]) /\ payload_source_ready(a, x, e) } }

(* the word that crosses the arbiter in this tick, if any *)
MergedWord(fs, a, x) ==
    LET d == IF a.from_tx THEN DIR_TX ELSE DIR_RX
        f == fs[d]
    IN  IF a.state = "HEADER" /\ source_valid(a, x) /\ x.source_ready
        THEN <<[dir |-> d, kind |-> "header", txn |-> Head(f.header).txn,
                k |-> f.hmux, data |-> source_data(a, x),
                first |-> source_first(a), last |-> source_last(a),
                dst |-> source_dst(a), length |-> source_length(a)]>>
        ELSE IF /\ a.state \in {"PAYLOAD", "PAD"}
                /\ mux_payload_valid(a, x)
                /\ payload_source_ready(a, x, d)
        THEN <<[dir |-> d,
                kind |-> IF a.state = "PAD" THEN "pad" ELSE "payload",
                txn |-> Head(f.payload).txn,
                k |-> 2 * (Head(f.payload).beat - 1) + f.pmux,
                data |-> source_data(a, x),
                first |-> source_first(a), last |-> source_last(a),
                dst |-> source_dst(a), length |-> source_length(a)]>>
        ELSE <<>>

MergedStep(g, fs, a, x, brx, btx, nrx, ntx) ==
    [txn |-> [d \in Directions |->
                 IF d = DIR_RX THEN (IF brx.first THEN nrx ELSE g.txn[d])
                 ELSE (IF btx.first THEN ntx ELSE g.txn[d])],
     seen |-> [d \in Directions |->
                 LET b == IF d = DIR_RX THEN brx ELSE btx
                 IN  IF ~b.req_active THEN g.seen[d]
                     ELSE IF b.last THEN 0
                     ELSE IF b.first THEN 1 ELSE g.seen[d] + 1],
     idle |-> a.state = "IDLE",
     rx_valid |-> x.rx_header_valid, tx_valid |-> x.tx_header_valid,
     from_tx |-> a.from_tx,
     reads |-> BufferReads(fs, a, x),
     words |-> IF a.state = "IDLE"
               THEN (IF x.rx_header_valid \/ x.tx_header_valid
                     THEN <<>> ELSE g.words)
               ELSE g.words \o MergedWord(fs, a, x),
     busy |-> IF a.state = "IDLE" THEN 0
              ELSE IF x.source_ready \/ a.state = "PAD"
                   THEN UpTo(g.busy + 1, HEADER_WORDS_32 + MaxLenDW + 2)
                   ELSE g.busy,
     stored |-> g.stored]

(* what one engine writes into its two buffers in this tick *)
HeaderWrite(r, d, i, n) ==
    IF header_sink_valid(r, i) /\ i.header_ready
    THEN <<[txn |-> n] @@ full_header(r, d, i)>> ELSE <<>>
PayloadWrite(r, i, n, beat) ==
    IF payload_write_success(r, i)
    THEN <<[txn |-> n, beat |-> beat, dat |-> payload_sink_data(i)]>> ELSE <<>>

(* One tick of USBMonitorSubsystem with both engines enabled: the engines, *)
(* their buffers and the arbiter.                                          *)
PipelineStep(source_ready, brx, btx) ==
        LET frx == mon_fifos[DIR_RX]
            ftx == mon_fifos[DIR_TX]
            irx == EngineInput(brx, TRUE, 0, header_fifo_sink_ready(frx),
                               payload_fifo_sink_ready(frx))
            itx == EngineInput(btx, TRUE, 0, header_fifo_sink_ready(ftx),
                               payload_fifo_sink_ready(ftx))
            x == ArbiterInput(mon_fifos, source_ready)
            nrx == IF brx.first THEN started + 1 ELSE merged.txn[DIR_RX]
            ntx == IF btx.first THEN started + B2N(brx.first) + 1
                   ELSE merged.txn[DIR_TX]
            a == mon_arbiter
        IN  /\ MonitorTick(FALSE, irx, itx)
            /\ mon_fifos' =
                 [d \in Directions |->
                    IF d = DIR_RX
                    THEN MonitorFIFOStep(frx,
                            HeaderWrite(rx_capture, DIR_RX, irx, nrx),
                            PayloadWrite(rx_capture, irx, nrx,
                                IF brx.first THEN 1 ELSE merged.seen[DIR_RX] + 1),
                            header_source_ready(a, x, d),
                            payload_source_ready(a, x, d))
                    ELSE MonitorFIFOStep(ftx,
                            HeaderWrite(tx_capture, DIR_TX, itx, ntx),
                            PayloadWrite(tx_capture, itx, ntx,
                                IF btx.first THEN 1 ELSE merged.seen[DIR_TX] + 1),
                            header_source_ready(a, x, d),
                            payload_source_ready(a, x, d))]
            /\ mon_arbiter' = MonitorArbiterStep(a, x)
            /\ merged' =
                 [MergedStep(merged, mon_fifos, a, x, brx, btx, nrx, ntx)
                    EXCEPT !.stored = [d \in Directions |->
                       merged.stored[d]
                       + Len(IF d = DIR_RX
                             THEN HeaderWrite(rx_capture, DIR_RX, irx, nrx)
                             ELSE HeaderWrite(tx_capture, DIR_TX, itx, ntx))]]

PipelineTick ==
    \E source_ready \in BOOLEAN :
    \E brx \in PipeBeats(rx_tap, merged.seen[DIR_RX], started < MaxRecords,
                         TapDats(DIR_RX)) :
    \E btx \in PipeBeats(tx_tap, merged.seen[DIR_TX],
                         started + B2N(brx.first) < MaxRecords,
                         TapDats(DIR_TX)) :
        PipelineStep(source_ready, brx, btx)

(* Traffic on the rx bus only, one transaction more than the header buffer *)
(* holds; a write request that starts here has more than one beat.         *)
HeaderFillTick ==
    \E source_ready \in BOOLEAN :
    \E brx \in { b \in PipeBeats(rx_tap, merged.seen[DIR_RX],
                                  started < HeaderFifoDepth + 1,
                                  TapDats(DIR_RX)) :
                    (b.first /\ b.we) => ~b.last } :
        PipelineStep(source_ready, brx, NoBeat)

MonitorInit ==
    /\ mon_fifos = [d \in Directions |-> MonitorFIFOReset]
    /\ mon_arbiter = MonitorArbiterReset
    /\ merged = MergedReset

(***************************************************************************)
(* core.py, USBCore rx path: depacketizer.source drives crossbar.master    *)
(* .sink, the Dispatcher routes it to the user ports.  The host sends      *)
(* well-formed frames for registered channels, pausing at will.            *)
(*   before : the state in which the frame before the present one was      *)
(*            abandoned by the watchdog ("NONE" if it was not)             *)
(*   during : the state in which the watchdog fired since the present      *)
(*            frame was picked ("NONE" if it did not)                      *)
(***************************************************************************)
RxPathReset == [before |-> "NONE", during |-> "NONE"]

(* payload lengths of the frames: one word and two words *)
RxLengths == {4, 8}

(* depacketizer.source as crossbar.master.sink *)
MasterSink(dp, sink_valid) ==
    [valid |-> dp_source_valid(dp, sink_valid), dst |-> dp_source_dst(dp),
     last |-> dp_last(dp)]

RxPathStep(offer, port_ready, next_host) ==
    LET users == crossbar.users
        m == MasterSink(depacketizer, offer # <<>>)
        ready == master_sink_ready(users, dispatcher, m, port_ready)
        fired == timer_done(depacketizer) /\ depacketizer.state # "IDLE"
        during == IF fired THEN depacketizer.state ELSE rx_path.during
    IN  /\ DepackStep(offer, ready, next_host)
        /\ dispatcher' = DispatcherStep(users, dispatcher, m, port_ready)
        /\ ig_wires' = [valid |-> [i \in PortsOf(users) |->
                                     port_source_valid(users, dispatcher, m, i)],
                        dst |-> IF m.valid THEN m.dst ELSE 0,
                        offered |-> m.valid,
                        taken |-> m.valid /\ ready]
        /\ rx_path' = IF next_host # <<>>
                      THEN [before |-> during, during |-> "NONE"]
                      ELSE [rx_path EXCEPT !.during = during]
        /\ UNCHANGED <<crossbar, ingress, arbiter, egress, eg_wires, registry>>

(* Between frames the host is silent. *)
RxPathIdle ==
    /\ host.mode = "garbage"
    /\ \E port_ready \in [PortsOf(crossbar.users) -> BOOLEAN] :
          RxPathStep(IF host.held THEN <<host.word>> ELSE <<>>, port_ready, <<>>)

RxPathNewFrame ==
    /\ host.mode = "garbage" /\ ~host.held /\ ~host.finished
    /\ host.sent < MaxFrames
    /\ \E dst \in Registered(crossbar.users) : \E L \in RxLengths :
        \E port_ready \in [PortsOf(crossbar.users) -> BOOLEAN] :
          RxPathStep(<<>>, port_ready,
                     <<[host EXCEPT !.mode = "frame", !.dst = dst,
                                    !.length = L, !.idx = 1, !.sent = @ + 1]>>)

RxPathFrame ==
    /\ host.mode = "frame"
    /\ \E valid \in (IF host.held THEN {TRUE} ELSE BOOLEAN) :
        \E port_ready \in [PortsOf(crossbar.users) -> BOOLEAN] :
          RxPathStep(IF valid THEN <<WireFormat(HostFrame)[host.idx]>>
                     ELSE <<>>, port_ready, <<>>)

FT601Init ==
    /\ ft601 = FT601Reset
    /\ write_fifo = <<>>
    /\ ft_pads = FtPadsReset
    /\ outbound = OutboundReset
    /\ peer = PeerReset
    /\ MonitorInit
    /\ rx_path = RxPathReset

CodecInit ==
    /\ src = SrcIdle
    /\ packetizer = PacketizerReset
    /\ link = <<>>
    /\ depacketizer = DepacketizerReset
    /\ emitted = <<>>
    /\ delivered = <<>>
    /\ inflight = <<>>
    /\ codec = CodecReset
    /\ host = HostReset
    /\ dp_wires = DpWiresReset

(***************************************************************************)
(* Specifications.                                                         *)
(***************************************************************************)
(* the crossbar with one port and no traffic *)
Parked ==
    /\ CrossbarInit({c \in Configs : Cardinality(PortsOf(c)) = 1}, {"none"})
    /\ FT601Init

InitCapture == CaptureInit /\ focus \in Directions /\ CodecInit /\ Parked
NextCapture == CaptureTick /\ UNCHANGED <<codec_vars, crossbar_vars, ft601_vars, monitor_vars, path_vars>>
SpecCapture == InitCapture /\ [][NextCapture]_vars

InitStats == CaptureInit /\ focus = NoFocus /\ CodecInit /\ Parked
NextStats == StatsTick /\ UNCHANGED <<codec_vars, crossbar_vars, ft601_vars, monitor_vars, path_vars>>
SpecStats == InitStats /\ [][NextStats]_vars

InitWrap == WrapInit /\ focus = NoFocus /\ CodecInit /\ Parked
NextWrap == WrapTick /\ UNCHANGED <<codec_vars, crossbar_vars, ft601_vars, monitor_vars, path_vars>>
SpecWrap == InitWrap /\ [][NextWrap]_vars

InitTwin == CaptureInit /\ focus = DIR_RX /\ CodecInit /\ Parked
NextTwin == TwinTick /\ UNCHANGED <<codec_vars, crossbar_vars, ft601_vars, monitor_vars, path_vars>>
SpecTwin == InitTwin /\ [][NextTwin]_vars

InitCodec == CaptureInit /\ focus = NoFocus /\ CodecInit /\ Parked
NextCodec ==
    /\ CodecTick \/ CodecIdleTick \/ CodecNewFrame
    /\ UNCHANGED <<capture_vars, crossbar_vars, ft601_vars, monitor_vars, path_vars>>
SpecCodec == InitCodec /\ [][NextCodec]_vars

InitDepack == CaptureInit /\ focus = NoFocus /\ CodecInit /\ Parked
NextDepack ==
    /\ DepackGarbage \/ DepackNewFrame \/ DepackFrame
    /\ UNCHANGED <<capture_vars, crossbar_vars, ft601_vars, monitor_vars, path_vars>>
SpecDepack == InitDepack /\ [][NextDepack]_vars

InitRegister ==
    /\ CaptureInit /\ focus = NoFocus /\ CodecInit /\ FT601Init
    /\ CrossbarInit({NoUsers}, {"setup"})
NextRegister == GetPort /\ UNCHANGED <<capture_vars, codec_vars, ft601_vars, monitor_vars, path_vars>>
SpecRegister == InitRegister /\ [][NextRegister]_vars

InitCrossbar ==
    /\ CaptureInit /\ focus = NoFocus /\ CodecInit /\ FT601Init
    /\ CrossbarInit(Configs, {"ingress", "egress"})
NextCrossbar ==
    /\ IngressTick \/ IngressNewFrame \/ EgressTick \/ EgressNewFrame
    /\ UNCHANGED <<capture_vars, codec_vars, ft601_vars, monitor_vars, path_vars>>
SpecCrossbar == InitCrossbar /\ [][NextCrossbar]_vars

InitFT601 ==
    /\ CaptureInit /\ focus = NoFocus /\ CodecInit
    /\ CrossbarInit({c \in Configs : Cardinality(PortsOf(c)) = 1}, {"none"})
    /\ FT601Init
NextFT601 ==
    /\ FT601Tick
    /\ UNCHANGED <<capture_vars, codec_vars, crossbar_vars, monitor_vars, path_vars>>
SpecFT601 == InitFT601 /\ [][NextFT601]_vars

InitPeer == InitFT601
NextPeer ==
    /\ FT601PeerTick
    /\ UNCHANGED <<capture_vars, codec_vars, crossbar_vars, monitor_vars, path_vars>>
SpecPeer == InitPeer /\ [][NextPeer]_vars

InitPipeline == InitFT601
NextPipeline ==
    /\ PipelineTick
    /\ UNCHANGED <<codec_vars, crossbar_vars, ft601_vars, path_vars>>
SpecPipeline == InitPipeline /\ [][NextPipeline]_vars

InitHeaderFill == InitFT601
NextHeaderFill ==
    /\ HeaderFillTick
    /\ UNCHANGED <<codec_vars, crossbar_vars, ft601_vars, path_vars>>
SpecHeaderFill == InitHeaderFill /\ [][NextHeaderFill]_vars

InitRxPath ==
    /\ CaptureInit /\ focus = NoFocus /\ CodecInit /\ FT601Init
    /\ CrossbarInit({c \in Configs : Cardinality(PortsOf(c)) > 1}, {"rx"})
NextRxPath ==
    /\ RxPathIdle \/ RxPathNewFrame \/ RxPathFrame
    /\ UNCHANGED <<capture_vars, ft601_vars, monitor_vars>>
SpecRxPath == InitRxPath /\ [][NextRxPath]_vars

(***************************************************************************)
(* Claims about the depacketizer fed by the host.                          *)
(***************************************************************************)
(* C15: the watchdog fires exactly when the depacketizer has been outside  *)
(* IDLE for TimeoutTicks consecutive ticks; in the tick it fires, in       *)
(* RECEIVE_HEADER as in COPY, whatever the sink and the consumer do, the   *)
(* next state is IDLE and the header accumulated so far is reset (the     *)
(* packer is back at its first word and holds no complete header; the      *)
(* words in chunk0 and chunk1 stay until the next header overwrites them); *)
(* so the depacketizer is never outside IDLE for more than                 *)
(* TimeoutTicks + 1 consecutive ticks.                                     *)
C15_Timeout ==
    /\ (dp_wires.fired # "NONE") <=> (dp_wires.outside = TimeoutTicks + 1)
    /\ (dp_wires.fired # "NONE") =>
          /\ depacketizer.state = "IDLE"
          /\ depacketizer.demux = 0 /\ ~depacketizer.strobe_all
    /\ dp_wires.outside <= TimeoutTicks + 1

(* the watchdog fired in COPY while a word was offered and was forwarded   *)
C15_Witness ==
    /\ dp_wires.fired = "COPY" /\ dp_wires.offered /\ dp_wires.taken
    /\ dp_wires.outside = TimeoutTicks + 1

(* the watchdog fired in RECEIVE_HEADER with one header word accumulated   *)
C15_WitnessHeader ==
    /\ dp_wires.fired = "RECEIVE_HEADER" /\ host.idx = 3
    /\ depacketizer.state = "IDLE"

IsPrefix(a, b) == Len(a) <= Len(b) /\ a = SubSeq(b, 1, Len(a))

(* C16: starting in IDLE, every word that is not the preamble is taken in  *)
(* the tick it is offered and nothing is forwarded; the well-formed frame  *)
(* that follows (the watchdog not firing) is delivered with its own id,    *)
(* length and payload.                                                     *)
C16_Resync ==
    (host.aligned /\ ~codec.timed_out) =>
        /\ dp_wires.noise => (dp_wires.taken /\ ~dp_wires.forwarded)
        /\ IsPrefix(delivered, ExpectedBeats(HostFrame))
        /\ host.finished => delivered = ExpectedBeats(HostFrame)

(***************************************************************************)
(* Claims about the link adapter.                                          *)
(***************************************************************************)
RxBranch == {"RX_WAIT1", "RX_WAIT2", "RX_WAIT3", "RX_ACTIVE"}
TxBranch == {"TX_WAIT1", "TX_WAIT2", "TX_ACTIVE"}

(* C17: from IDLE the next state is RX_WAIT1 whenever rxf_n is low, also   *)
(* with txe_n low and the outbound queue valid; TX_WAIT1 only with rxf_n   *)
(* high, txe_n low and the queue valid; IDLE in every other case.          *)
C17_Priority ==
    ft_pads.state = "IDLE" =>
        /\ ~ft_pads.rxf_n => ft601.state = "RX_WAIT1"
        /\ ft601.state = "TX_WAIT1" <=>
              (ft_pads.rxf_n /\ ~ft_pads.txe_n /\ ft_pads.valid)
        /\ (ft_pads.rxf_n /\ ~(~ft_pads.txe_n /\ ft_pads.valid)) =>
              ft601.state = "IDLE"

C17_Witness ==
    /\ ft_pads.state = "IDLE" /\ ~ft_pads.rxf_n /\ ~ft_pads.txe_n
    /\ ft_pads.valid /\ ft601.state = "RX_WAIT1"

(* C18: readiness lost in a WAIT or ACTIVE state (rxf_n high on the RX     *)
(* branch; txe_n high on the TX branch, or the outbound queue empty in     *)
(* TX_ACTIVE) leads to the branch's COOLDOWN1, then COOLDOWN2, then IDLE,  *)
(* whatever the inputs; a WAIT1 state is entered only from IDLE, a         *)
(* COOLDOWN2 only from its COOLDOWN1, and IDLE only from a COOLDOWN2.      *)
C18_Cooldown ==
    /\ (ft_pads.state \in RxBranch /\ ft_pads.rxf_n) =>
          ft601.state = "RX_COOLDOWN1"
    /\ (ft_pads.state \in TxBranch /\ ft_pads.txe_n) =>
          ft601.state = "TX_COOLDOWN1"
    /\ (ft_pads.state = "TX_ACTIVE" /\ ~ft_pads.valid) =>
          ft601.state = "TX_COOLDOWN1"
    /\ ft_pads.state = "RX_COOLDOWN1" => ft601.state = "RX_COOLDOWN2"
    /\ ft_pads.state = "TX_COOLDOWN1" => ft601.state = "TX_COOLDOWN2"
    /\ ft_pads.state \in {"RX_COOLDOWN2", "TX_COOLDOWN2"} =>
          ft601.state = "IDLE"
    /\ ft601.state \in {"RX_WAIT1", "TX_WAIT1"} => ft_pads.state = "IDLE"
    /\ ft601.state = "RX_COOLDOWN2" => ft_pads.state = "RX_COOLDOWN1"
    /\ ft601.state = "TX_COOLDOWN2" => ft_pads.state = "TX_COOLDOWN1"
    /\ (ft601.state = "IDLE" /\ ft_pads.state # "IDLE") =>
          ft_pads.state \in {"RX_COOLDOWN2", "TX_COOLDOWN2"}

(* the outbound queue ran empty in TX_ACTIVE with txe_n low *)
C18_Witness ==
    /\ ft_pads.state = "TX_ACTIVE" /\ ~ft_pads.valid /\ ~ft_pads.txe_n
    /\ ft601.state = "TX_COOLDOWN1"

(* C19: read_buffer.sink.valid in a tick is (state was RX_ACTIVE and       *)
(* rxf_n was low) in the tick before, and read_buffer.sink.data is the     *)
(* bus data of the tick before, whether or not read_buffer is ready.       *)
C19_InboundLag ==
    /\ ft601.rx_valid <=> (ft_pads.state = "RX_ACTIVE" /\ ~ft_pads.rxf_n)
    /\ ft601.data_r_reg = ft_pads.data_r

(* a word is presented to the full read_buffer right after one it refused  *)
C19_Witness ==
    /\ ft601.rx_valid /\ ft601.data_r_reg = 1
    /\ ~read_buffer_sink_ready(ft601) /\ ~ft_pads.sink_ready

(* C20: the words the peer takes from the data bus (ticks with wr_n low    *)
(* and txe_n low) are the words removed from write_fifo, in order, none    *)
(* lost or duplicated: what was taken is always a prefix of what was       *)
(* removed, and once the adapter is back in IDLE with wr_n high it is all  *)
(* of it.                                                                  *)
C20_OutboundIntact ==
    /\ IsPrefix(outbound.taken, outbound.removed)
    /\ (ft601.state = "IDLE" /\ ft601.wr_n_reg) =>
          outbound.taken = outbound.removed

(* C26: RX_ACTIVE is entered only from RX_WAIT3, after RX_WAIT1, RX_WAIT2, *)
(* RX_WAIT3 each with rxf_n low, 4 ticks after the IDLE tick that started  *)
(* the attempt; TX_ACTIVE only from TX_WAIT2, after TX_WAIT1, TX_WAIT2     *)
(* each with txe_n low, 3 ticks after the IDLE tick; never earlier.        *)
C26_WaitStates ==
    /\ ft601.state = "RX_WAIT2" =>
          (ft_pads.state = "RX_WAIT1" /\ ft_pads.age = 2)
    /\ ft601.state = "RX_WAIT3" =>
          (ft_pads.state = "RX_WAIT2" /\ ft_pads.age = 3)
    /\ (ft601.state = "RX_ACTIVE" /\ ft_pads.state # "RX_ACTIVE") =>
          (ft_pads.state = "RX_WAIT3" /\ ft_pads.age = 4
           /\ ft_pads.rx_lows >= 3)
    /\ ft601.state = "RX_ACTIVE" => ft_pads.age >= 4
    /\ ft601.state = "TX_WAIT2" =>
          (ft_pads.state = "TX_WAIT1" /\ ft_pads.age = 2)
    /\ (ft601.state = "TX_ACTIVE" /\ ft_pads.state # "TX_ACTIVE") =>
          (ft_pads.state = "TX_WAIT2" /\ ft_pads.age = 3
           /\ ft_pads.tx_lows >= 2)
    /\ ft601.state = "TX_ACTIVE" => ft_pads.age >= 3

(* the first tick of RX_ACTIVE *)
C26_Witness ==
    /\ ft601.state = "RX_ACTIVE" /\ ft_pads.state = "RX_WAIT3"
    /\ ft_pads.age = 4

(* the first tick of TX_ACTIVE *)
C26_WitnessTx ==
    /\ ft601.state = "TX_ACTIVE" /\ ft_pads.state = "TX_WAIT2"
    /\ ft_pads.age = 3

(* C27: a word is removed from write_fifo (valid and ready both high) in   *)
(* exactly the ticks in which the state is TX_ACTIVE, txe_n is low and the *)
(* queue is valid.                                                         *)
C27_Consumption ==
    ft_pads.remove <=>
        (ft_pads.state = "TX_ACTIVE" /\ ~ft_pads.txe_n /\ ft_pads.valid)

Numbered(n) == [k \in 1..n |-> k]

(* C21: with the driver as the peer, the words written into read_buffer    *)
(* (ticks with rx_valid high) are the words the peer queued, in order,     *)
(* none lost or duplicated: what was written is always the first words     *)
(* queued, and all of them once the driver waits for more.                 *)
C21_InboundIntact ==
    /\ Len(peer.written) <= peer.queued
    /\ peer.written = Numbered(Len(peer.written))
    /\ (peer.pc = "get" /\ peer.queue = <<>>) =>
          Len(peer.written) = peer.queued

(***************************************************************************)
(* Claims about the capture engine.                                        *)
(***************************************************************************)
Completing == obs.beat \in {"last", "single"}

(* C4: a transaction whose first beat finds header_sink.ready low never   *)
(* asserts payload_sink.valid, never writes a header and leaves            *)
(* packets_captured alone; if the engine saw that first beat it adds       *)
(* exactly 1 to packets_dropped, on the transaction's last beat; and while *)
(* the engine is enabled and the header buffer is held full, captured     *)
(* stays 0 and dropped is the number of transactions that have arrived.    *)
C4_DropStep ==
    /\ (obs'.beat # "idle" /\ ~obs'.room) =>
          /\ ~FocusedWires'.payload_valid
          /\ ~(FocusedWires'.header_valid /\ FocusedWires'.header_ready)
          /\ ~clear_r' =>
                Focused'.packets_captured = Focused.packets_captured
    /\ (obs'.beat # "idle" /\ obs'.refused /\ ~clear_r') =>
          Focused'.packets_dropped =
                Focused.packets_dropped + B2N(Completing')
    /\ obs'.heldfull =>
          /\ Focused'.packets_dropped = obs'.completed
          /\ Focused'.packets_captured = 0

C4_DropInvariant == [][C4_DropStep]_vars

(* The same for transactions seen with enable high on every beat, and with *)
(* enable high throughout while the header buffer is held full.            *)
C4_DropEnabledStep ==
    /\ (obs'.beat # "idle" /\ obs'.en /\ ~obs'.room) =>
          /\ ~FocusedWires'.payload_valid
          /\ ~(FocusedWires'.header_valid /\ FocusedWires'.header_ready)
          /\ ~clear_r' =>
                /\ Focused'.packets_captured = Focused.packets_captured
                /\ Focused'.packets_dropped =
                      Focused.packets_dropped + B2N(Completing')
    /\ obs'.heldfull =>
          /\ Focused'.packets_dropped = obs'.completed
          /\ Focused'.packets_captured = 0

C4_DropEnabled == [][C4_DropEnabledStep]_vars

(* C5: a committed header has its truncated bit set if and only if a       *)
(* payload beat of the same transaction was offered and rejected.          *)
C5_TruncatedIffRejected ==
    (FocusedWires.header_valid /\ FocusedWires.header_ready /\ obs.en) =>
        (Word0Truncated(FocusedWires.header_data) <=> obs.rejected)

(* C6: in the tick after clear_stats was asserted the three counters of    *)
(* both engines are 0.                                                     *)
StatsZero(r) ==
    r.packets_captured = 0 /\ r.packets_dropped = 0 /\ r.packets_truncated = 0

C6_ClearZeroesAll == clear_r => StatsZero(rx_capture) /\ StatsZero(tx_capture)

(* clear_stats in the tick of a last beat, with counters that were not 0.  *)
C6_Witness ==
    /\ clear_r
    /\ rx_wires.header_valid /\ tx_wires.header_valid
    /\ started = MaxTransactions

(* C9: every transaction completed with enable high adds exactly 1 to      *)
(* exactly one of packets_captured / packets_dropped: captured if the      *)
(* header buffer had room on its first beat, dropped otherwise; the sum    *)
(* of the two is the number of transactions completed since the clear.     *)
C9_AccountingStep ==
    /\ Focused'.packets_captured + Focused'.packets_dropped = obs'.completed
    /\ (Completing' /\ obs'.en /\ ~clear_r') =>
          IF obs'.room
          THEN /\ Focused'.packets_captured = Focused.packets_captured + 1
               /\ Focused'.packets_dropped = Focused.packets_dropped
          ELSE /\ Focused'.packets_captured = Focused.packets_captured
               /\ Focused'.packets_dropped = Focused.packets_dropped + 1

C9_Accounting == [][C9_AccountingStep]_vars

(* A multi-beat transaction that lost a payload beat and was captured,     *)
(* after one that was dropped.                                             *)
C9_Witness ==
    /\ obs.beat = "last" /\ obs.en /\ obs.room /\ obs.rejected
    /\ Focused.packets_captured = 1 /\ Focused.packets_dropped = 1

(* C10: packets_truncated is the number of captured transactions since     *)
(* the last clear that had a payload beat rejected.                        *)
C10_TruncatedCount == Focused.packets_truncated = obs.lossy

HeaderWritten == FocusedWires.header_valid /\ FocusedWires.header_ready

(* C12: a header is written to the header buffer only in the tick of the   *)
(* last beat of a transaction admitted on its first beat, never on a first *)
(* or middle beat of a multi-beat transaction, and every admitted          *)
(* transaction commits its header on its last beat.                        *)
C12_CommitOnLast ==
    /\ HeaderWritten => (Completing /\ obs.admitted)
    /\ (Completing /\ obs.admitted) => FocusedWires.header_valid

(* C25: in a tick in which clear_stats is not asserted none of the three   *)
(* counters decreases, whatever 32-bit value it holds.                     *)
C25_MonotonicStep ==
    ~clear_r' =>
        /\ ULeq32(rx_capture.packets_captured, rx_capture'.packets_captured)
        /\ ULeq32(rx_capture.packets_dropped, rx_capture'.packets_dropped)
        /\ ULeq32(rx_capture.packets_truncated, rx_capture'.packets_truncated)

C25_Monotonic == [][C25_MonotonicStep]_vars

Quiescent == ~src.active /\ packetizer.state = "IDLE" /\ link = <<>>

(* C1: a frame (c, p) sent through the packetizer and its word stream fed  *)
(* to the depacketizer comes out as exactly one frame with dst = c,        *)
(* length = len(p) and the same payload words, nothing lost, duplicated    *)
(* or reordered (runs in which the watchdog fired are left aside).         *)
C1_RoundTrip ==
    ~codec.timed_out =>
        /\ ~codec.mismatch
        /\ Quiescent => inflight = <<>>

(* C7: for a header length of L bytes the depacketizer forwards exactly    *)
(* ceil(L/4) payload words and flags last on exactly the final one.        *)
C7_ForwardsCeil ==
    \A k \in 1..Len(delivered) :
        /\ k <= CeilDiv4(delivered[k].length)
        /\ delivered[k].last <=> k = CeilDiv4(delivered[k].length)

Sent == packetizer.state = "IDLE" /\ emitted # <<>>

(* The words emitted are always a prefix of 0x5AA55AA5, c, L and the       *)
(* sink's payload words, and the whole of it once the frame is sent; for   *)
(* a payload of at least one byte that is the packet the test bench builds.*)
WireFormatHolds ==
    LET w == WireFormat(codec.sending)
    IN  /\ Len(emitted) <= Len(w)
        /\ emitted = SubSeq(w, 1, Len(emitted))
        /\ Sent => emitted = w
        /\ (Sent /\ codec.sending.length > 0) =>
              emitted = build_usb_packet(codec.sending.dst,
                                         Payload(codec.sending.length))

HelloSent == Sent /\ codec.sending = [dst |-> 0, length |-> 6]

(* C8, as stated: the words the packetizer emits for a frame with channel  *)
(* c and length L are 0x5AA55AA5, c, L and then the sink's payload words   *)
(* up to and including the one flagged last; channel 0 with b"Hello!"      *)
(* gives 0x5AA55AA5, 0, 6, 0x6C6C6548, 0x00006F21.                         *)
C8_WireFormatAsStated ==
    /\ WireFormatHolds
    /\ HelloSent => emitted = <<1520786085, 0, 6, 1819043144, 28449>>

(* C8, amended: the same wire format; channel 0 with b"Hello!" gives       *)
(* 0x5AA55AA5, 0, 6, 0x6C6C6548, 0x0000216F ('o' = 0x6F is the low byte).  *)
C8_WireFormat ==
    /\ WireFormatHolds
    /\ HelloSent => emitted = <<1520786085, 0, 6, 1819043144, 8559>>

C8_Witness == HelloSent /\ emitted = <<1520786085, 0, 6, 1819043144, 8559>>

(***************************************************************************)
(* Claims about the crossbar.                                              *)
(***************************************************************************)

(* C2: in every configuration, that with a single registered channel       *)
(* included, a word of an ingress frame becomes valid only on the source   *)
(* of the user port registered under the frame's channel id, and a word    *)
(* of a frame with an unregistered id on no port.                          *)
C2_Routing ==
    \A i \in PortsOf(crossbar.users) :
        ig_wires.valid[i] => crossbar.users[i] = ig_wires.dst

(* C13: get_port with an id that is already registered raises and leaves   *)
(* the registered ports as they were; with an unused id it registers       *)
(* exactly one new port, under that id, after the earlier ports.           *)
C13_GetPort ==
    registry.called =>
        LET before == registry.before
            users == crossbar.users
            n == Cardinality(PortsOf(before))
        IN  IF registry.id \in Registered(before)
            THEN registry.raised /\ users = before
            ELSE /\ ~registry.raised
                 /\ PortsOf(users) = PortsOf(before) \cup {n}
                 /\ users[n] = registry.id
                 /\ \A i \in PortsOf(before) : users[i] = before[i]

(* A duplicate registration was attempted on a crossbar with two ports. *)
C13_Witness ==
    /\ registry.called /\ registry.raised
    /\ Cardinality(PortsOf(crossbar.users)) >= 2

(* C14: a word of a frame whose channel id is not registered selects no    *)
(* port and is consumed in the tick it is offered (master.sink.ready is    *)
(* high); a word of a frame for a registered id, also one that follows an  *)
(* unroutable frame, is valid on the port registered under its id.         *)
C14_Unroutable ==
    ig_wires.offered =>
        IF ig_wires.dst \in Registered(crossbar.users)
        THEN \A i \in PortsOf(crossbar.users) :
                crossbar.users[i] = ig_wires.dst => ig_wires.valid[i]
        ELSE /\ ig_wires.taken
             /\ \A i \in PortsOf(crossbar.users) : ~ig_wires.valid[i]

(* C3: the words handed to the packetizer form whole frames: once a word   *)
(* of one port's frame has been forwarded, no other port's word is         *)
(* forwarded before that frame's word flagged last.                        *)
C3_Atomic ==
    (eg_wires.fire /\ eg_wires.open_before # NoPort) =>
        eg_wires.port = eg_wires.open_before

(* Two ports offer a beat in the same tick, and the beat forwarded         *)
(* continues a frame that was already open.                                *)
C3_Witness ==
    /\ eg_wires.fire
    /\ eg_wires.open_before # NoPort
    /\ eg_wires.pending >= 2

(***************************************************************************)
(* Claims about the capture arbiter (SpecPipeline).                        *)
(***************************************************************************)
DirOf(from_tx) == IF from_tx THEN DIR_TX ELSE DIR_RX

(* C22: a tick in which the arbiter is in IDLE and the rx header buffer is  *)
(* valid selects rx, whatever the tx header buffer offers; tx is selected  *)
(* only by an IDLE tick in which the rx header buffer is not valid and the *)
(* tx one is; a tick outside IDLE leaves the selection as it was.          *)
C22_Priority ==
    /\ (merged.idle /\ merged.rx_valid) =>
          (mon_arbiter.state = "HEADER" /\ ~mon_arbiter.from_tx)
    /\ (merged.idle /\ ~merged.rx_valid /\ merged.tx_valid) =>
          (mon_arbiter.state = "HEADER" /\ mon_arbiter.from_tx)
    /\ (merged.idle /\ ~merged.rx_valid /\ ~merged.tx_valid) =>
          mon_arbiter.state = "IDLE"
    /\ ~merged.idle => (mon_arbiter.from_tx <=> merged.from_tx)

(* both header buffers were valid in the IDLE tick that started a packet *)
C22_Witness ==
    /\ merged.idle /\ merged.rx_valid /\ merged.tx_valid
    /\ mon_arbiter.state = "HEADER"

(* tx was selected because the rx header buffer was empty *)
C22_WitnessTx ==
    /\ merged.idle /\ merged.tx_valid
    /\ mon_arbiter.state = "HEADER" /\ mon_arbiter.from_tx

(* C23: outside IDLE the selected direction is held; every buffer read     *)
(* of a tick outside IDLE is a read of the selected direction; all words   *)
(* read for one packet, header, payload and pad, come from one direction.  *)
C23_Atomicity ==
    /\ \A r \in merged.reads :
          ~merged.idle /\ r[1] = DirOf(merged.from_tx)
    /\ \A i \in 1..Len(merged.words) :
          merged.words[i].dir = merged.words[1].dir
    /\ (mon_arbiter.state # "IDLE" /\ merged.words # <<>>) =>
          merged.words[1].dir = DirOf(mon_arbiter.from_tx)

(* a tx packet is being read out of the payload buffer while an rx record  *)
(* (header and payload) is waiting                                         *)
C23_Witness ==
    /\ mon_arbiter.state = "PAYLOAD" /\ mon_arbiter.from_tx
    /\ <<DIR_TX, "payload">> \in merged.reads
    /\ header_fifo_source_valid(mon_fifos[DIR_RX])
    /\ payload_fifo_source_valid(mon_fifos[DIR_RX])

(* C24: the words read for a packet whose header records L payload words   *)
(* are its 8 header words in order, then L payload words, then at most one *)
(* pad word; the emitted ones carry dst = USB_MONITOR_CHANNEL and          *)
(* length = 4 * (8 + L); first is set on the first header word only and    *)
(* last on emitted word 8 + L only; a pad is read only for odd L; back in  *)
(* IDLE, 8 + L = length / 4 words were emitted.                            *)
C24_Framing ==
    LET w == merged.words
        n == Len(w)
        L == IF n = 0 THEN 0 ELSE w[1].data % 1024
    IN  /\ n <= HEADER_WORDS_32 + L + 1
        /\ \A i \in 1..n :
              /\ w[i].dst = USB_MONITOR_CHANNEL
              /\ w[i].length = 4 * (HEADER_WORDS_32 + L)
              /\ w[i].first <=> i = 1
              /\ i <= HEADER_WORDS_32 =>
                    (w[i].kind = "header" /\ w[i].k = i - 1
                       /\ w[i].txn = w[1].txn)
              /\ (i > HEADER_WORDS_32 /\ i <= HEADER_WORDS_32 + L) =>
                    w[i].kind = "payload"
              /\ i > HEADER_WORDS_32 + L => (w[i].kind = "pad" /\ L % 2 = 1)
              /\ w[i].kind # "pad" => (w[i].last <=> i = HEADER_WORDS_32 + L)
        /\ (mon_arbiter.state = "IDLE" /\ n > 0) =>
              /\ n = HEADER_WORDS_32 + L + (L % 2)
              /\ Len(SelectSeq(w, LAMBDA e : e.kind # "pad")) * 4 = w[1].length

(* a packet with an odd number of payload words (more than one) was        *)
(* emitted and its pad read                                                *)
C24_Witness ==
    /\ mon_arbiter.state = "IDLE"
    /\ Len(merged.words) = HEADER_WORDS_32 + 4
    /\ merged.words[Len(merged.words)].kind = "pad"

(* a packet without payload was emitted: its eighth header word is last *)
C24_WitnessHeaderOnly ==
    /\ mon_arbiter.state = "IDLE"
    /\ Len(merged.words) = HEADER_WORDS_32
    /\ merged.words[HEADER_WORDS_32].last

(* the payload beats of transaction n waiting in the payload buffer f *)
StoredBeats(f, n) ==
    Cardinality({ j \in 1..Len(f.payload) : f.payload[j].txn = n })

(* the header at position j of the header buffer of direction d has all    *)
(* of its payload still waiting: the arbiter has not started reading it    *)
Untouched(d, j) ==
    \/ j > 1
    \/ mon_arbiter.state \in {"IDLE", "HEADER"}
    \/ DirOf(mon_arbiter.from_tx) # d

(* C28: a committed header records L payload words exactly when            *)
(* (L + 1) \div 2 beats of its transaction were stored in the payload       *)
(* buffer; and the payload and pad words the arbiter reads for a packet    *)
(* are the words of the transaction its header was captured from, in       *)
(* order.                                                                  *)
C28_Alignment ==
    /\ \A d \in Directions :
          \A j \in 1..Len(mon_fifos[d].header) :
              Untouched(d, j) =>
                  LET e == mon_fifos[d].header[j]
                  IN  StoredBeats(mon_fifos[d], e.txn)
                          = BeatsOf(Word0PayloadLength(e.word0))
    /\ \A i \in 1..Len(merged.words) :
          /\ merged.words[i].txn = merged.words[1].txn
          /\ i > HEADER_WORDS_32 =>
                merged.words[i].k = i - HEADER_WORDS_32 - 1

(* C29: a packet the arbiter has started is back in IDLE after at most     *)
(* 8 + L + 1 ticks in which the downstream was ready (L the payload        *)
(* length of its header): one tick per header word, per payload word and   *)
(* for the pad.                                                            *)
C29_Progress ==
    merged.busy <= HEADER_WORDS_32 + mon_arbiter.payload_length_dw + 1

(***************************************************************************)
(* Claims about the rx path (SpecRxPath).                                  *)
(***************************************************************************)
(* the user ports on which the frame f is to appear *)
PortsFor(f) == [i \in PortsOf(crossbar.users) |-> crossbar.users[i] = f.dst]

(* C30: a well-formed frame that follows a frame abandoned by the watchdog *)
(* (in RECEIVE_HEADER or in COPY), and during which the watchdog does not   *)
(* fire, is delivered as its own frame: the beats delivered are its        *)
(* payload words, the last one flagged last, and each of them is valid on  *)
(* the port registered under its channel id and on no other port.          *)
C30_AfterTimeout ==
    (/\ rx_path.before # "NONE" /\ rx_path.during = "NONE"
     /\ host.aligned /\ (host.mode = "frame" \/ host.finished)) =>
        /\ IsPrefix(delivered, ExpectedBeats(HostFrame))
        /\ host.finished => delivered = ExpectedBeats(HostFrame)
        /\ dp_wires.forwarded => ig_wires.valid = PortsFor(HostFrame)

(* C30, frame abandoned in RECEIVE_HEADER *)
C30_AfterHeaderTimeout == rx_path.before = "RECEIVE_HEADER" => C30_AfterTimeout

(***************************************************************************)
(* Claims about the packetizer (SpecCodec).                                *)
(***************************************************************************)
(* C31: in INSERT_HEADER the words emitted for the frame are the first     *)
(* header_unpack.mux of its three header words and no payload beat of it   *)
(* was taken from the sink; in COPY the three header words were emitted    *)
(* once, followed by the payload beats taken so far, and the beat flagged  *)
(* last is not among them; IDLE is entered only with the whole frame       *)
(* emitted, and while in IDLE no beat of the next frame is taken.          *)
C31_OneFrame ==
    LET w == WireFormat(codec.sending)
    IN  /\ packetizer.state = "INSERT_HEADER" =>
              /\ Len(emitted) = packetizer.mux /\ Len(emitted) < 3
              /\ emitted = SubSeq(w, 1, Len(emitted))
              /\ src.active /\ src.idx = 1
        /\ packetizer.state = "COPY" =>
              /\ src.active /\ Len(emitted) = 2 + src.idx
              /\ Len(emitted) < Len(w)
              /\ emitted = SubSeq(w, 1, Len(emitted))
        /\ packetizer.state = "IDLE" =>
              /\ emitted = <<>> \/ emitted = w
              /\ src.active => src.idx = 1

(* the second frame was sent whole, with more than one payload word *)
C31_Witness ==
    /\ packetizer.state = "IDLE" /\ codec.started >= 2
    /\ Len(emitted) > 4 /\ emitted = WireFormat(codec.sending)

(***************************************************************************)
(* Claims about the header fields and the payload of a capture engine      *)
(* (SpecCapture).                                                          *)
(***************************************************************************)
(* C32: the fields of a committed header are those of its own transaction: *)
(* the kind, the payload length and the timestamp in the header offered to *)
(* the header buffer are the values that were on the bus in the tick of    *)
(* the first beat of the transaction that is completing (the live values   *)
(* for a single-beat transaction), never those of an earlier transaction.  *)
C32_OwnFields ==
    FocusedWires.header_valid =>
        /\ Word0TlpType(FocusedWires.header_data) = obs.own.kind
        /\ Word0PayloadLength(FocusedWires.header_data) = obs.own.len
        /\ FocusedWires.header_data.hi = obs.own.ts

(* With enable high on every beat of the transaction the fields are its    *)
(* own.                                                                    *)
C32_OwnFieldsEnabled == (FocusedWires.header_valid /\ obs.en) => C32_OwnFields

FocusedTap == IF focus = DIR_RX THEN rx_tap ELSE tx_tap

(* C33: best-effort payload: a beat is offered to the payload buffer only  *)
(* in the tick it is on the bus (a rejected beat is never offered again in *)
(* a later tick); after a beat of an admitted transaction was rejected,    *)
(* every later beat of that transaction is still offered, and on its last  *)
(* beat the header is committed with the truncated bit set and the         *)
(* transaction is not counted as dropped.                                  *)
C33_BestEffortStep ==
    /\ FocusedWires'.payload_valid => obs'.beat # "idle"
    /\ (FocusedTap.mid /\ obs.admitted /\ obs.rejected
            /\ obs'.beat # "idle") =>
          /\ FocusedWires'.payload_valid
          /\ obs'.beat = "last" =>
                /\ FocusedWires'.header_valid
                /\ Word0Truncated(FocusedWires'.header_data)
                /\ ~clear_r' =>
                      Focused'.packets_dropped = Focused.packets_dropped

C33_BestEffort == [][C33_BestEffortStep]_vars

(* The same for the beats seen with enable high on every beat of the       *)
(* transaction.                                                            *)
C33_BestEffortEnabledStep ==
    /\ FocusedWires'.payload_valid => obs'.beat # "idle"
    /\ (FocusedTap.mid /\ obs.admitted /\ obs.rejected
            /\ obs'.beat # "idle" /\ obs'.en) =>
          /\ FocusedWires'.payload_valid
          /\ obs'.beat = "last" =>
                /\ FocusedWires'.header_valid
                /\ Word0Truncated(FocusedWires'.header_data)
                /\ ~clear_r' =>
                      Focused'.packets_dropped = Focused.packets_dropped

C33_BestEffortEnabled == [][C33_BestEffortEnabledStep]_vars

(* The last beat of an admitted transaction is written to the payload      *)
(* buffer and its header is committed, after an earlier beat of the same   *)
(* transaction was rejected.                                               *)
C33_Witness ==
    /\ obs.beat = "last" /\ obs.admitted /\ obs.en /\ obs.rejected
    /\ FocusedWires.payload_valid /\ FocusedWires.payload_ready
    /\ FocusedWires.header_valid /\ FocusedWires.header_ready
    /\ Word0Truncated(FocusedWires.header_data)

(* C34: payload only for the kinds that carry it.  On no beat of a read    *)
(* request or of a completion without data is payload_sink.valid asserted, *)
(* and the header committed for it has payload length 0; every beat of an  *)
(* admitted write request or completion with data is offered to the        *)
(* payload buffer, and the header committed for it has the length field of *)
(* the transaction as payload length.                                      *)
C34_PayloadKinds ==
    LET k == obs.own.kind
        w == FocusedWires
    IN  /\ (obs.beat # "idle" /\ k \in {TLP_TYPE_MRD, TLP_TYPE_CPL}) =>
              /\ ~w.payload_valid
              /\ (w.header_valid /\ obs.en) =>
                    Word0PayloadLength(w.header_data) = 0
        /\ (obs.beat # "idle" /\ k \in {TLP_TYPE_MWR, TLP_TYPE_CPLD}
                /\ obs.admitted /\ obs.en) =>
              /\ w.payload_valid
              /\ w.header_valid =>
                    Word0PayloadLength(w.header_data) = obs.own.dw

(* The header of a multi-beat write request is committed with its length   *)
(* field, its last beat being offered to the payload buffer.               *)
C34_Witness ==
    /\ obs.beat = "last" /\ obs.admitted /\ obs.en
    /\ obs.own.kind = TLP_TYPE_MWR /\ obs.own.dw > 0
    /\ FocusedWires.payload_valid /\ FocusedWires.header_valid
    /\ Word0PayloadLength(FocusedWires.header_data) = obs.own.dw

(* The header of a read request of one DWORD is committed with payload     *)
(* length 0.                                                               *)
C34_ReadCommitted ==
    /\ Completing /\ obs.en /\ obs.own.kind = TLP_TYPE_MRD /\ obs.own.dw > 0
    /\ FocusedWires.header_valid /\ ~FocusedWires.payload_valid
    /\ Word0PayloadLength(FocusedWires.header_data) = 0

(* Any values on the tap, well-formed or not. *)
AnyTap ==
    [req_active : BOOLEAN, cpl_active : BOOLEAN, first : BOOLEAN,
     last : BOOLEAN, we : BOOLEAN, len : TapLens, dat : {NoDat}]

(* C38: a disabled engine is inert.  From every state the engine reaches,  *)
(* a tick with enable low asserts neither header_sink.valid nor            *)
(* payload_sink.valid and leaves packets_captured, packets_dropped and     *)
(* packets_truncated as they are (0 if clear_stats is asserted), whatever  *)
(* is on the tap and whatever the buffers signal; and in a tick in which   *)
(* the first beat of a transaction was on the bus with enable low neither  *)
(* valid was asserted.                                                     *)
C38_DisabledInert ==
    /\ \A b \in AnyTap, ts \in Timestamps, hr \in BOOLEAN, pr \in BOOLEAN :
          LET i == EngineInput(b, FALSE, ts, hr, pr)
              r == Focused
          IN  /\ ~header_sink_valid(r, i)
              /\ ~payload_sink_valid(r, i)
              /\ \A c \in BOOLEAN :
                    /\ next_packets_captured(r, i, c) =
                          (IF c THEN 0 ELSE r.packets_captured)
                    /\ next_packets_dropped(r, i, c) =
                          (IF c THEN 0 ELSE r.packets_dropped)
                    /\ next_packets_truncated(r, i, c) =
                          (IF c THEN 0 ELSE r.packets_truncated)
    /\ (obs.beat \in {"first", "single"} /\ ~obs.en) =>
          /\ ~FocusedWires.header_valid
          /\ ~FocusedWires.payload_valid

(* The first beat of a transaction went by with enable low while the       *)
(* engine held a drop decision and counts of earlier transactions.         *)
C38_Witness ==
    /\ obs.beat \in {"first", "single"} /\ ~obs.en
    /\ Focused.dropping
    /\ Focused.packets_captured > 0 /\ Focused.packets_truncated > 0
    /\ ~FocusedWires.header_valid /\ ~FocusedWires.payload_valid

(***************************************************************************)
(* Claims about the engines with their buffers (SpecPipeline).             *)
(***************************************************************************)
(* C37: with enable held high and well-formed transactions, in each        *)
(* direction packets_captured equals the number of header records the      *)
(* header buffer has accepted (header_sink valid and ready in the same     *)
(* tick, merged.stored): no transaction is counted as captured without its *)
(* header stored and no header is stored without being counted.            *)
C37_CapturedIsStored ==
    /\ rx_capture.packets_captured = merged.stored[DIR_RX]
    /\ tx_capture.packets_captured = merged.stored[DIR_TX]

(* As many transactions as the header buffer holds were captured and       *)
(* their headers stored, the next one found the buffer full and was        *)
(* dropped.                                                                *)
C37_Witness ==
    /\ rx_capture.packets_captured = HeaderFifoDepth
    /\ rx_capture.packets_dropped > 0
    /\ merged.stored[DIR_RX] = HeaderFifoDepth
    /\ ~header_fifo_sink_ready(mon_fifos[DIR_RX])

(***************************************************************************)
(* Claims about the strobes of the FT601 adapter (SpecFT601).              *)
(***************************************************************************)
(* C35: read strobe ordering.  rd_n is never low in a tick in which oe_n   *)
(* is high, and in the tick before rd_n goes low oe_n is low and in the    *)
(* tick before that one oe_n is high: oe_n goes low exactly one tick       *)
(* before rd_n at the start of every read burst.                           *)
C35_StrobeOrderStep ==
    /\ ~ft601'.rd_n_reg => ~ft601'.oe_n_reg
    /\ (ft601.rd_n_reg /\ ~ft601'.rd_n_reg) =>
          /\ ~ft601.oe_n_reg
          /\ ft_pads.oe_n

C35_StrobeOrder == [][C35_StrobeOrderStep]_vars

(* The second tick of a read burst: rd_n and oe_n are low, and oe_n was    *)
(* low in the tick before, in which the adapter was in RX_WAIT3 with rd_n  *)
(* still high.                                                             *)
C35_Witness ==
    /\ ft601.state = "RX_ACTIVE" /\ ft_pads.state = "RX_WAIT3"
    /\ ~ft601.rd_n_reg /\ ~ft601.oe_n_reg /\ ~ft_pads.oe_n
    /\ ft601.level > 0

(* C36: no bus contention.  wr_n is never low in a tick in which oe_n or   *)
(* rd_n is low, the FPGA never drives the data bus (oe) in a tick in which *)
(* oe_n is low, and as long as the adapter has not left IDLE since reset   *)
(* (more generally whenever it was in IDLE in the last tick) oe_n, rd_n    *)
(* and wr_n are all high.                                                  *)
C36_NoContention ==
    /\ ~ft601.wr_n_reg => (ft601.oe_n_reg /\ ft601.rd_n_reg)
    /\ ~ft601.oe_n_reg => ~ft601.oe
    /\ ft_pads.state = "IDLE" =>
          (ft601.oe_n_reg /\ ft601.rd_n_reg /\ ft601.wr_n_reg)

(* A write strobe after words were read from the peer, and, in the other   *)
(* witness, a read burst after words were written.                         *)
C36_Witness ==
    /\ ~ft601.wr_n_reg /\ ft601.oe /\ ft601.level > 0
    /\ outbound.taken # <<>>

C36_WitnessRead ==
    /\ ~ft601.oe_n_reg /\ ~ft601.rd_n_reg /\ ~ft601.oe
    /\ outbound.taken # <<>>

(* C39: outbound progress.  From every state, wr_n is low after at most 6  *)
(* consecutive ticks in which the outbound queue holds a word, txe_n is    *)
(* low and rxf_n is high (the adapter is in TX_ACTIVE by then); and once   *)
(* wr_n is low, in every tick in which the queue still holds a word and    *)
(* txe_n is low the peer takes a word and wr_n stays low, so the transfer  *)
(* goes on until the queue is empty.                                       *)
C39_ProgressStep ==
    /\ ft_pads'.wait <= 6
    /\ (ft_pads'.wait = 0 /\ ft_pads'.valid /\ ~ft_pads'.txe_n
            /\ ft_pads'.rxf_n) =>
          (ft_pads'.state = "TX_ACTIVE" /\ ~ft601'.wr_n_reg)
    /\ (~ft601.wr_n_reg /\ ft_pads'.valid /\ ~ft_pads'.txe_n) =>
          /\ ~ft601'.wr_n_reg
          /\ ft601'.state = "TX_ACTIVE"
          /\ Len(outbound'.taken) = Len(outbound.taken) + 1

C39_OutboundProgress == [][C39_ProgressStep]_vars

(* The adapter was in RX_ACTIVE when the peer stopped sending: it is in    *)
(* TX_ACTIVE after 6 ticks of waiting, and writes in the next tick.        *)
C39_Witness ==
    /\ ft_pads.wait = 6 /\ ft601.state = "TX_ACTIVE" /\ ft601.wr_n_reg
    /\ write_fifo # <<>>

(* The last of MaxWords queued words has been taken by the peer.           *)
C39_WitnessDrained ==
    /\ Len(outbound.taken) = MaxWords /\ outbound.taken = outbound.removed
    /\ ft_pads.state = "TX_ACTIVE" /\ write_fifo = <<>>

====
